---- MODULE Spec2Model ----
(***************************************************************************)
(* Model of ml_metadata's QueryConfigExecutor                              *)
(* (src/ml_metadata/metadata_store/query_config_executor.cc): schema       *)
(* probing, the upgrade / downgrade migration state machine, and the       *)
(* transaction wrapper every call runs in.                                 *)
(*                                                                         *)
(* Every driver statement (MetadataSource::ExecuteQuery) is one step of a  *)
(* caller; a statement that writes may fail with a driver error.  Check    *)
(* queries read the schema and succeed exactly when what they select       *)
(* exists.                                                                 *)
(*                                                                         *)
(* ListNodeIDsUsingOptions and the list operation helper are modelled on a *)
(* node table that other callers write to: the clauses of a statement, the *)
(* rows it selects, and a caller that follows page tokens.                 *)
(*                                                                         *)
(* The store facade's retry of a call, the template form of ExecuteQuery,  *)
(* and the edge tables the Put calls insert into, are modelled each under  *)
(* a specification of its own.  So are InsertEventPath and the set-up of   *)
(* the read-nodes-by-id workload of mlmd_bench                             *)
(* (src/ml_metadata/tools/mlmd_bench/read_nodes_by_properties_workload.cc).*)
(***************************************************************************)
EXTENDS Integers, Sequences, FiniteSets, TLC

\* ------------------------------------------------------------------ bounds

\* query_config_.schema_version(): the library version of the catalog.
LibVersion == 3
\* number of upgrade (and of downgrade) queries of one migration scheme.
NumQueries == 2
\* number of calls one caller makes in a behaviour.
MaxCalls == 2
\* number of secondary indices of the catalog (secondary_indices_size()).
NumIndices == 2

\* the callers (one connection each); the specifications of one caller at a
\* time run caller 1 and leave the other idle.
Procs == {1, 2}
Callers == {1}

\* ------------------------------------------------------------ status codes

OK == "OK"
\* what MetadataSource::ExecuteQuery reports when a writing statement fails.
DriverErrors == {"Internal", "Aborted"}

\* ------------------------------------------------------------ the database

\* The 15 tables InitMetadataSourceIfNotExists checks.
TableNames ==
    {"Type", "ParentType", "TypeProperty", "Artifact", "ArtifactProperty",
     "Execution", "ExecutionProperty", "Event", "EventPath", "MLMDEnv",
     "Context", "ParentContext", "ContextProperty", "Association",
     "Attribution"}

\* The tables of the v0.13.2 release, which check_tables_in_v0_13_2 selects.
V0132Tables ==
    {"Type", "TypeProperty", "Artifact", "ArtifactProperty", "Execution",
     "ExecutionProperty", "Event", "EventPath"}

\* The tables the upgrade to version v creates (version 0 predates MLMDEnv).
NewTables(v) ==
    IF v = 1 THEN {"MLMDEnv"}
    ELSE IF v = 2 THEN {"Context", "ContextProperty", "Association",
                        "Attribution"}
    ELSE IF v = 3 THEN {"ParentType", "ParentContext"}
    ELSE {}

\* The schema changes of all migration queries up to version v.
FeaturesUpTo(v) == {f \in (1..v) \X (1..NumQueries) : TRUE}

\* The secondary indices of the catalog, by position.
AllIndices == 1..NumIndices

\* A database holding the schema of version v.
DBAt(v) ==
    [tables   |-> V0132Tables \cup UNION {NewTables(w) : w \in 1..v},
     env      |-> IF v = 0 THEN <<>> ELSE <<v>>,
     features |-> FeaturesUpTo(v),
     indices  |-> AllIndices]

EmptyDB == [tables |-> {}, env |-> <<>>, features |-> {}, indices |-> {}]

\* MLMDEnv exists but holds no row / two rows.
NoRowDB == [DBAt(LibVersion) EXCEPT !.env = <<>>]
TwoRowDB == [DBAt(LibVersion) EXCEPT !.env = <<LibVersion, LibVersion - 1>>]

InitialDBs ==
    {DBAt(v) : v \in 0..(LibVersion + 1)} \cup {EmptyDB, NoRowDB, TwoRowDB}

\* ------------------------------------------------------------- the catalog

\* migration_schemes[v].upgrade_queries: the queries leading to version v.
upgrade_queries(v) ==
    [i \in 1..NumQueries |-> [kind |-> "upgrade", v |-> v, i |-> i]]

\* migration_schemes[w].downgrade_queries: the queries leading down to
\* version w, undoing the upgrade to w + 1 in reverse order.
downgrade_queries(w) ==
    [i \in 1..NumQueries |->
        [kind |-> "downgrade", v |-> w + 1, i |-> NumQueries + 1 - i]]

UpdateSchemaVersionStmt(v) == [kind |-> "update_schema_version", v |-> v, i |-> 0]

\* Mutant: the Attribution table is not created.
CreateOrder_without_attribution ==
    <<"Type", "TypeProperty", "ParentType", "Artifact", "ArtifactProperty",
      "Execution", "ExecutionProperty", "Event", "EventPath", "MLMDEnv",
      "Context", "ContextProperty", "ParentContext", "Association">>
\* The order in which InitMetadataSource creates the tables.
CreateOrder ==
    <<"Type", "TypeProperty", "ParentType", "Artifact", "ArtifactProperty",
      "Execution", "ExecutionProperty", "Event", "EventPath", "MLMDEnv",
      "Context", "ContextProperty", "ParentContext", "Association",
      "Attribution">>

\* The order in which InitMetadataSourceIfNotExists checks the tables.
CheckOrder ==
    <<"Type", "ParentType", "TypeProperty", "Artifact", "ArtifactProperty",
      "Execution", "ExecutionProperty", "Event", "EventPath", "MLMDEnv",
      "Context", "ParentContext", "ContextProperty", "Association",
      "Attribution">>

\* create_<table>_table, the k-th creation of InitMetadataSource.
CreateTableStmt(k) == [kind |-> "create_table", v |-> LibVersion, i |-> k]
\* secondary_indices(j).
CreateIndexStmt(j) == [kind |-> "create_index", v |-> LibVersion, i |-> j]
\* Mutant: the version inserted is the one before the version asked for.
InsertSchemaVersionStmt_previous(v) ==
    [kind |-> "insert_schema_version", v |-> v - 1, i |-> 0]

\* insert_schema_version with the version bound.
InsertSchemaVersionStmt(v) == [kind |-> "insert_schema_version", v |-> v, i |-> 0]

\* The catalogs: complete, or lacking the scheme of one version.
Catalogs ==
    {0..LibVersion} \cup {(0..LibVersion) \ {v} : v \in 0..LibVersion}

\* -------------------------------------------------------------- the driver

\* Whether the driver can execute statement q on database d at all.
Executable(q, d) ==
    CASE q.kind = "update_schema_version" -> "MLMDEnv" \in d.tables
      [] q.kind = "upgrade" /\ q.v = 1 /\ q.i = 2 -> "MLMDEnv" \in d.tables
      [] q.kind = "insert_schema_version" ->
           /\ "MLMDEnv" \in d.tables
           /\ \A k \in 1..Len(d.env) : d.env[k] # q.v
      [] OTHER -> TRUE

\* The database after the driver executed statement q on database d.
Apply(q, d) ==
    CASE q.kind = "upgrade" ->
           [tables   |-> IF q.i = 1 THEN d.tables \cup NewTables(q.v)
                         ELSE d.tables,
            env      |-> IF q.v = 1 /\ q.i = 2 THEN Append(d.env, 0)
                         ELSE d.env,
            features |-> d.features \cup {<<q.v, q.i>>},
            indices  |-> d.indices]
      [] q.kind = "downgrade" ->
           [tables   |-> IF q.i = 1 THEN d.tables \ NewTables(q.v)
                         ELSE d.tables,
            env      |-> IF q.v = 1 /\ q.i = 1 THEN <<>> ELSE d.env,
            features |-> d.features \ {<<q.v, q.i>>},
            indices  |-> d.indices]
      [] q.kind = "update_schema_version" ->
           [d EXCEPT !.env = [k \in 1..Len(d.env) |-> q.v]]
      [] q.kind = "create_table" ->
           IF CreateOrder[q.i] \in d.tables THEN d
           ELSE [d EXCEPT
                   !.tables = @ \cup {CreateOrder[q.i]},
                   !.features = IF CreateOrder[q.i] = "Type"
                                THEN @ \cup FeaturesUpTo(LibVersion) ELSE @]
      [] q.kind = "create_index" -> [d EXCEPT !.indices = @ \cup {q.i}]
      [] q.kind = "insert_schema_version" -> [d EXCEPT !.env = Append(@, q.v)]

\* A table check (check_<table>_table) succeeds when the table exists.
CheckTable(t, d) == t \in d.tables

\* check_mlmd_env_table succeeds when MLMDEnv exists; it returns its rows.
CheckMLMDEnvTable(d) == "MLMDEnv" \in d.tables

\* check_tables_in_v0_13_2 succeeds when the v0.13.2 tables exist in the
\* layout of that release: it detects the v0.13.2 schema, not tables that a
\* later catalog created.
CheckTablesIn_V0_13_2_by_table_names(d) == V0132Tables \subseteq d.tables
CheckTablesIn_V0_13_2(d) == V0132Tables \subseteq d.tables /\ d.features = {}

\* -------------------------------------------------------------------- state

VARIABLES
    db,        \* the database: tables, rows of MLMDEnv, applied schema changes
    schemes,   \* the versions the catalog has a migration_schemes entry for
    snapshot,  \* per caller: the database when its transaction began
    pc,        \* per caller: where it is in its call
    call,      \* per caller: the call and its local variables
    log,       \* per caller: the writing statements its call sent to the driver
    prev,      \* per caller: its previous, completed call
    ncalls,    \* per caller: number of calls begun
    nodes,     \* the rows of one node table (Artifact, Execution or Context)
    clock,     \* the wall clock, in milliseconds
    request,   \* the list request in hand: options, page token, candidates
    response,  \* what the last list request returned
    scan,      \* the paginated scan in progress and what it has visited
    tables,    \* the rows of the edge tables, in insertion order
    exec,      \* the last call on the edge tables or on a template
    bench      \* the benchmark workload: its configuration and work items

\* the state of the schema calls, of the list operations, of the edge
\* tables and of the benchmark workload.
schemavars == <<db, schemes, snapshot, pc, call, log, prev, ncalls>>
listvars == <<nodes, clock, request, response, scan>>
execvars == <<tables, exec>>
benchvars == <<bench>>
vars == <<db, schemes, snapshot, pc, call, log, prev, ncalls,
          nodes, clock, request, response, scan, tables, exec, bench>>

\* absl::nullopt, the query_schema_version() of an executor that is not
\* pinned to a version.
nullopt == [has_value |-> FALSE, value |-> 0]

\* stage: which part of InitMetadataSourceIfNotExists / InitMetadataSource
\* the call is in; checks: the number of table checks made so far (q - 1
\* while they are made); missing: how many of them failed; skipped: the
\* index creations InitMetadataSource went on from although they failed;
\* message: the driver's answer to the last index creation that failed.
NoCall ==
    [op |-> "none", enable_migration |-> FALSE, to_schema_version |-> 0,
     db_version |-> 0, get_schema_version_status |-> OK, to_version |-> 0,
     q |-> 0, status |-> OK, faulted |-> FALSE,
     query_schema_version |-> nullopt, stage |-> "main", checks |-> 0,
     missing |-> 0, attempts |-> 0, skipped |-> 0, message |-> ""]

NoPrev == [op |-> "none", call |-> NoCall, before |-> EmptyDB, after |-> EmptyDB]

\* ------------------------------------------------- list requests: the data

\* ListOperationOptions.OrderByField.Field
Fields == {"CREATE_TIME", "LAST_UPDATE_TIME", "ID"}

\* A ListOperationNextPageToken without offsets: what a request of a first
\* page carries.
NoToken ==
    [field_offset |-> 0, has_id_offset |-> FALSE, id_offset |-> 0,
     listed_ids |-> <<>>,
     set_options |-> [max_result_size |-> 20, field |-> "ID",
                      is_asc |-> TRUE]]

\* ListOperationOptions and the optional candidate_ids of one request.
NoRequest ==
    [node |-> "Artifact",
     options |-> [max_result_size |-> 1, field |-> "ID", is_asc |-> FALSE,
                  has_next_page_token |-> FALSE, next_page_token |-> <<>>],
     candidate_ids |-> [has_value |-> FALSE, value |-> {}]]

\* What ListNodeIDsUsingOptions returned: the status, the clauses appended to
\* the statement, whether the statement went to the driver, and the ids of
\* the record set in the order the driver returned them.
NoResponse ==
    [status |-> OK, select |-> "", where |-> "", order_by |-> "",
     limit |-> "", executed |-> FALSE, record_set |-> <<>>]

\* The scan of a caller that follows page tokens: the page size asked for,
\* the last page, its token, and bookkeeping of what the scan has visited
\* (visited), which ids sorted after the cursor when the token in hand was
\* issued (owed), which of them were written since (changed), which of them
\* were still unchanged when the token was consumed (due), whether another
\* caller wrote to the table while the scan held a token (written), the
\* token of the request in hand as it was before it was encoded (issued), and
\* the ids of the pages returned so far, in the order returned (seen).
NoScan ==
    [pc |-> "idle", following |-> FALSE, page_size |-> 1, page |-> <<>>,
     has_next |-> FALSE, visited |-> {}, owed |-> {}, changed |-> {},
     due |-> {}, written |-> FALSE, issued |-> NoToken, seen |-> <<>>]

\* The edge tables: each row is the pair of its two key columns, as the
\* literals that were bound (child first in the two hierarchies).
EdgeTables == {"ParentType", "ParentContext", "Attribution", "Association"}

\* The tables insertions are modelled of: the edge tables and EventPath, whose
\* row is (event_id, the step's value case, is_index_step, the step's value).
Tables == EdgeTables \cup {"EventPath"}

NoTables == [t \in Tables |-> <<>>]

\* No call on the edge tables was made. fatal: the process was terminated by
\* LOG(FATAL) and returned no status. sent: the statements handed to the
\* driver. before: the tables when the call began. n: the calls made.
NoExec ==
    [pc |-> "idle", op |-> "", args |-> <<>>, parameter_num |-> 0,
     status |-> OK, fatal |-> FALSE, sent |-> <<>>, before |-> NoTables,
     n |-> 0]

\* A workload that was not set up: its configuration (the specification,
\* num_operations and the range of num_of_parameters), the nodes it found in
\* the store, the status SetUp returned and its work items, each the request,
\* its bytes and the number of parameters drawn for it (num).
NoBench ==
    [pc |-> "idle", specification |-> "", num_operations |-> 0,
     minimum |-> 0, maximum |-> 0, existing_nodes |-> <<>>, status |-> OK,
     work_items |-> <<>>]

\* No workload was set up.
BenchIdle == bench = NoBench

\* The edge tables are empty and no call on them was made.
ExecIdle ==
    /\ tables = NoTables
    /\ exec = NoExec

\* No list operation is in progress and the node table is empty.
ListIdle ==
    /\ nodes = <<>>
    /\ clock = 0
    /\ request = NoRequest
    /\ response = NoResponse
    /\ scan = NoScan

Init ==
    /\ db \in InitialDBs
    /\ schemes \in Catalogs
    /\ snapshot = [p \in Procs |-> db]
    /\ pc = [p \in Procs |-> "idle"]
    /\ call = [p \in Procs |-> NoCall]
    /\ log = [p \in Procs |-> <<>>]
    /\ prev = [p \in Procs |-> NoPrev]
    /\ ncalls = [p \in Procs |-> 0]
    /\ ListIdle
    /\ ExecIdle
    /\ BenchIdle

\* ------------------------------------------------- the transaction wrapper

\* Begin: a caller starts a call in a fresh transaction.
Begin(p, c, first) ==
    /\ pc[p] \in {"idle", "done"}
    /\ ncalls[p] < MaxCalls
    /\ ncalls' = [ncalls EXCEPT ![p] = @ + 1]
    /\ prev' = [prev EXCEPT ![p] =
                   IF pc[p] = "done"
                   THEN [op |-> call[p].op, call |-> call[p],
                         before |-> snapshot[p], after |-> db]
                   ELSE NoPrev]
    /\ snapshot' = [snapshot EXCEPT ![p] = db]
    /\ call' = [call EXCEPT ![p] = c]
    /\ log' = [log EXCEPT ![p] = <<>>]
    /\ pc' = [pc EXCEPT ![p] = first]
    /\ UNCHANGED <<db, schemes, listvars, execvars, benchvars>>

\* The database a transaction leaves: committed when the call returned OK,
\* rolled back to where the transaction began otherwise.
Rollback(s, d) == s
Finish(status, s, d) == IF status = OK THEN d ELSE Rollback(s, d)

\* The call returned: commit or roll back, and hand the status to the caller.
EndTransaction(p) ==
    /\ pc[p] = "ret"
    /\ db' = Finish(call[p].status, snapshot[p], db)
    /\ pc' = [pc EXCEPT ![p] = "done"]
    /\ UNCHANGED <<schemes, listvars, execvars, benchvars, snapshot, call, log, prev, ncalls>>

\* MLMD_RETURN_IF_ERROR(UpgradeMetadataSourceIfOutOfDate(...)) inside
\* InitMetadataSourceIfNotExists: an OK upgrade step goes on to the table
\* checks; every other return ends the call.
ToTableChecks(c, st) ==
    c.op = "InitIfNotExists" /\ c.stage = "upgrade" /\ st = OK

\* return st;
Return(p, st) ==
    /\ call' = [call EXCEPT
          ![p].status = st,
          ![p].stage = IF ToTableChecks(call[p], st) THEN "checks" ELSE @,
          ![p].q = IF ToTableChecks(call[p], st) THEN 1 ELSE @]
    /\ pc' = [pc EXCEPT ![p] =
                 IF ToTableChecks(call[p], st) THEN "init_checks" ELSE "ret"]

\* ---------------------------------------------------------- ExecuteQuery

\* What the driver may answer to writing statement q on database d.
ExecOutcomes(q, d) ==
    IF Executable(q, d) THEN {OK} \cup DriverErrors ELSE {"Internal"}

\* A driver error whose message contains "Duplicate key name": what some
\* engines answer when the index to create exists already.
DuplicateKeyName == "Internal: Duplicate key name"

\* What the driver may answer to the creation of a secondary index.
IndexOutcomes(q, d) ==
    ExecOutcomes(q, d) \cup (IF q.i \in d.indices THEN {DuplicateKeyName} ELSE {})

\* Mutant: the failure of a statement is swallowed.
ReturnWithContextIfError_swallows(r) == OK

\* MLMD_RETURN_WITH_CONTEXT_IF_ERROR: a failed statement ends the call with
\* the statement's status code (the message gets a prefix).
ReturnWithContextIfError(r) == r

\* Mutant: the catalog is not searched for the scheme.
MissingScheme_never(to_version, migration_schemes) == FALSE

\* migration_schemes.find(to_version) == migration_schemes.end()
MissingScheme(to_version, migration_schemes) ==
    to_version \notin migration_schemes

\* ------------------------------------------------------- GetSchemaVersion

\* Mutant: more than one row is not detected.
EnvRowsStatus_no_dataloss(rows) ==
    IF Len(rows) = 0 THEN "Aborted" ELSE OK

\* The rows check_mlmd_env_table returned: the status of GetSchemaVersion.
EnvRowsStatus(rows) ==
    IF Len(rows) = 0 THEN "Aborted"
    ELSE IF Len(rows) > 1 THEN "DataLoss"
    ELSE OK

\* First statement of GetSchemaVersion: check_mlmd_env_table.
GetSchemaVersionEnv(p) ==
    /\ pc[p] = "gsv_env"
    /\ IF CheckMLMDEnvTable(db)
       THEN /\ call' = [call EXCEPT
                  ![p].get_schema_version_status = EnvRowsStatus(db.env),
                  ![p].db_version =
                      IF EnvRowsStatus(db.env) = OK THEN db.env[1] ELSE @]
            /\ pc' = [pc EXCEPT ![p] = "probed"]
       ELSE /\ pc' = [pc EXCEPT ![p] = "gsv_legacy"]
            /\ UNCHANGED call
    /\ UNCHANGED <<db, schemes, listvars, execvars, benchvars, snapshot, log, prev, ncalls>>

\* MLMDEnv could not be read: v0.13.2 (version 0) or an empty database.
LegacyStatus(d) == IF CheckTablesIn_V0_13_2(d) THEN OK ELSE "NotFound"

GetSchemaVersionLegacy(p) ==
    /\ pc[p] = "gsv_legacy"
    /\ call' = [call EXCEPT
          ![p].get_schema_version_status = LegacyStatus(db),
          ![p].db_version = IF LegacyStatus(db) = OK THEN 0 ELSE @]
    /\ pc' = [pc EXCEPT ![p] = "probed"]
    /\ UNCHANGED <<db, schemes, listvars, execvars, benchvars, snapshot, log, prev, ncalls>>

\* A caller asks for the schema version.
CallGetSchemaVersion(p) ==
    Begin(p, [NoCall EXCEPT !.op = "GetSchemaVersion"], "gsv_env")

GetSchemaVersionReturn(p) ==
    /\ pc[p] = "probed"
    /\ call[p].op = "GetSchemaVersion"
    /\ Return(p, call[p].get_schema_version_status)
    /\ UNCHANGED <<db, schemes, listvars, execvars, benchvars, snapshot, log, prev, ncalls>>

\* -------------------------------------------------------------- IsCompatible

IsCompatible(db_version, lib_version) == db_version = lib_version

\* --------------------------------------- UpgradeMetadataSourceIfOutOfDate

CallUpgrade(p, enable_migration) ==
    Begin(p, [NoCall EXCEPT !.op = "Upgrade",
                            !.enable_migration = enable_migration], "gsv_env")

\* The version the upgrade works from: an empty database counts as up to date.
UpgradeDbVersion_keeps_zero(status, db_version) == db_version
UpgradeDbVersion(status, db_version) ==
    IF status = "NotFound" THEN LibVersion ELSE db_version

\* Mutant: a database newer than the library is not refused.
UpgradeDecision_accepts_newer(status, db_version, enable_migration) ==
    IF status # "NotFound" /\ status # OK THEN status
    ELSE IF IsCompatible(UpgradeDbVersion(status, db_version), LibVersion)
         THEN OK
    ELSE IF UpgradeDbVersion(status, db_version) < LibVersion
            /\ ~enable_migration
         THEN "FailedPrecondition"
    ELSE "migrate"

\* Mutant: the upgrade migrates whether or not migration is enabled.
UpgradeDecision_ignores_flag(status, db_version, enable_migration) ==
    IF status # "NotFound" /\ status # OK THEN status
    ELSE IF IsCompatible(UpgradeDbVersion(status, db_version), LibVersion)
         THEN OK
    ELSE IF UpgradeDbVersion(status, db_version) > LibVersion
         THEN "FailedPrecondition"
    ELSE "migrate"

\* What the upgrade does once the version is known: "migrate", or the status
\* it returns at once.
UpgradeDecision(status, db_version, enable_migration) ==
    IF status # "NotFound" /\ status # OK THEN status
    ELSE IF IsCompatible(UpgradeDbVersion(status, db_version), LibVersion)
         THEN OK
    ELSE IF UpgradeDbVersion(status, db_version) > LibVersion
         THEN "FailedPrecondition"
    ELSE IF UpgradeDbVersion(status, db_version) < LibVersion
            /\ ~enable_migration
         THEN "FailedPrecondition"
    ELSE "migrate"

UpgradeCheckVersion(p) ==
    /\ pc[p] = "probed"
    /\ \/ call[p].op = "Upgrade"
       \/ call[p].op = "InitIfNotExists" /\ call[p].stage = "upgrade"
    /\ LET c == call[p]
           d == UpgradeDecision(c.get_schema_version_status, c.db_version,
                                c.enable_migration)
           v == UpgradeDbVersion(c.get_schema_version_status, c.db_version)
       IN  IF d = "migrate"
           THEN /\ call' = [call EXCEPT ![p].db_version = v]
                /\ pc' = [pc EXCEPT ![p] = "up_loop"]
           ELSE /\ call' = [call EXCEPT
                      ![p].db_version = v, ![p].status = d,
                      ![p].stage = IF ToTableChecks(c, d) THEN "checks" ELSE @,
                      ![p].q = IF ToTableChecks(c, d) THEN 1 ELSE @]
                /\ pc' = [pc EXCEPT ![p] =
                             IF ToTableChecks(c, d) THEN "init_checks"
                             ELSE "ret"]
    /\ UNCHANGED <<db, schemes, listvars, execvars, benchvars, snapshot, log, prev, ncalls>>

\* Mutant: the upgrade skips a version.
UpgradeToVersion_skips(db_version) == db_version + 2

\* The destination of the next upgrade step.
UpgradeToVersion(db_version) == db_version + 1

\* while (db_version < lib_version)
UpgradeContinues(db_version) == db_version < LibVersion

\* The head of the upgrade loop: find the scheme of the next version.
UpgradeLoop(p) ==
    /\ pc[p] = "up_loop"
    /\ IF UpgradeContinues(call[p].db_version)
       THEN LET to_version == UpgradeToVersion(call[p].db_version)
            IN  IF MissingScheme(to_version, schemes)
                THEN Return(p, "Internal")
                ELSE /\ call' = [call EXCEPT ![p].to_version = to_version,
                                             ![p].q = 1]
                     /\ pc' = [pc EXCEPT ![p] =
                                  IF Len(upgrade_queries(to_version)) = 0
                                  THEN "up_version" ELSE "up_query"]
       ELSE Return(p, OK)
    /\ UNCHANGED <<db, schemes, listvars, execvars, benchvars, snapshot, log, prev, ncalls>>

\* One upgrade query of migration_schemes[to_version].
UpgradeQuery(p) ==
    /\ pc[p] = "up_query"
    /\ LET qs == upgrade_queries(call[p].to_version)
           stmt == qs[call[p].q]
       IN  \E r \in ExecOutcomes(stmt, db) :
             /\ log' = [log EXCEPT ![p] = Append(@, [stmt |-> stmt, ok |-> r = OK])]
             /\ IF r = OK
                THEN /\ db' = Apply(stmt, db)
                     /\ call' = [call EXCEPT ![p].q = @ + 1]
                     /\ pc' = [pc EXCEPT ![p] =
                                  IF call[p].q = Len(qs)
                                  THEN "up_version" ELSE "up_query"]
                ELSE /\ db' = db
                     /\ call' = [call EXCEPT
                                   ![p].status = ReturnWithContextIfError(r),
                                   ![p].faulted = TRUE]
                     /\ pc' = [pc EXCEPT ![p] = "ret"]
    /\ UNCHANGED <<schemes, listvars, execvars, benchvars, snapshot, prev, ncalls>>

\* UpdateSchemaVersion(to_version); db_version = to_version.
UpgradeUpdateSchemaVersion(p) ==
    /\ pc[p] = "up_version"
    /\ LET stmt == UpdateSchemaVersionStmt(call[p].to_version)
       IN  \E r \in ExecOutcomes(stmt, db) :
             /\ log' = [log EXCEPT ![p] = Append(@, [stmt |-> stmt, ok |-> r = OK])]
             /\ IF r = OK
                THEN /\ db' = Apply(stmt, db)
                     /\ call' = [call EXCEPT
                                   ![p].db_version = call[p].to_version]
                     /\ pc' = [pc EXCEPT ![p] = "up_loop"]
                ELSE /\ db' = db
                     /\ call' = [call EXCEPT
                                   ![p].status = ReturnWithContextIfError(r),
                                   ![p].faulted = TRUE]
                     /\ pc' = [pc EXCEPT ![p] = "ret"]
    /\ UNCHANGED <<schemes, listvars, execvars, benchvars, snapshot, prev, ncalls>>

\* ------------------------------------------------ DowngradeMetadataSource

\* The targets callers ask for: in range, and just outside it on both sides.
Targets == (0 - 1)..(LibVersion + 1)

\* Mutant: only a negative target is refused.
TargetOutOfRange_only_negative(to_schema_version) == to_schema_version < 0

\* to_schema_version < 0 || to_schema_version > lib_version
TargetOutOfRange(to_schema_version) ==
    to_schema_version < 0 \/ to_schema_version > LibVersion

\* Mutant: a rejected target is reported as a failed precondition.
TargetOutOfRangeStatus_failed_precondition == "FailedPrecondition"

\* The status of a rejected target.
TargetOutOfRangeStatus == "InvalidArgument"

CallDowngrade(p, to_schema_version) ==
    Begin(p, [NoCall EXCEPT !.op = "Downgrade",
                            !.to_schema_version = to_schema_version],
          "down_arg")

DowngradeCheckTarget(p) ==
    /\ pc[p] = "down_arg"
    /\ IF TargetOutOfRange(call[p].to_schema_version)
       THEN Return(p, TargetOutOfRangeStatus)
       ELSE /\ pc' = [pc EXCEPT ![p] = "gsv_env"]
            /\ UNCHANGED call
    /\ UNCHANGED <<db, schemes, listvars, execvars, benchvars, snapshot, log, prev, ncalls>>

\* Mutant: the NotFound of an empty database is returned as it is.
DowngradeDecision_verbatim(status, db_version) ==
    IF status # OK THEN status
    ELSE IF db_version > LibVersion THEN "FailedPrecondition"
    ELSE "migrate"

\* What the downgrade does once the version is known: "migrate", or the
\* status it returns at once.
DowngradeDecision(status, db_version) ==
    IF status = "NotFound" THEN "InvalidArgument"
    ELSE IF status # OK THEN status
    ELSE IF db_version > LibVersion THEN "FailedPrecondition"
    ELSE "migrate"

DowngradeCheckVersion(p) ==
    /\ pc[p] = "probed"
    /\ call[p].op = "Downgrade"
    /\ LET d == DowngradeDecision(call[p].get_schema_version_status,
                                  call[p].db_version)
       IN  IF d = "migrate"
           THEN /\ pc' = [pc EXCEPT ![p] = "down_loop"]
                /\ UNCHANGED call
           ELSE Return(p, d)
    /\ UNCHANGED <<db, schemes, listvars, execvars, benchvars, snapshot, log, prev, ncalls>>

\* The destination of the next downgrade step.
DowngradeToVersion(db_version) == db_version - 1

\* Mutant: the downgrade takes one step too many.
DowngradeContinues_one_more(db_version, to_schema_version) ==
    db_version >= to_schema_version

\* Mutant: the downgrade steps down whenever the version is not the target.
DowngradeContinues_until_equal(db_version, to_schema_version) ==
    db_version # to_schema_version

\* while (db_version > to_schema_version)
DowngradeContinues(db_version, to_schema_version) ==
    db_version > to_schema_version

\* The head of the downgrade loop: find the scheme of the next version.
DowngradeLoop(p) ==
    /\ pc[p] = "down_loop"
    /\ IF DowngradeContinues(call[p].db_version, call[p].to_schema_version)
       THEN LET to_version == DowngradeToVersion(call[p].db_version)
            IN  IF MissingScheme(to_version, schemes)
                THEN Return(p, "Internal")
                ELSE /\ call' = [call EXCEPT ![p].to_version = to_version,
                                             ![p].q = 1]
                     /\ pc' = [pc EXCEPT ![p] =
                                  IF Len(downgrade_queries(to_version)) = 0
                                  THEN "down_version" ELSE "down_query"]
       ELSE Return(p, OK)
    /\ UNCHANGED <<db, schemes, listvars, execvars, benchvars, snapshot, log, prev, ncalls>>

\* One downgrade query of migration_schemes[to_version].
DowngradeQuery(p) ==
    /\ pc[p] = "down_query"
    /\ LET qs == downgrade_queries(call[p].to_version)
           stmt == qs[call[p].q]
       IN  \E r \in ExecOutcomes(stmt, db) :
             /\ log' = [log EXCEPT ![p] = Append(@, [stmt |-> stmt, ok |-> r = OK])]
             /\ IF r = OK
                THEN /\ db' = Apply(stmt, db)
                     /\ call' = [call EXCEPT ![p].q = @ + 1]
                     /\ pc' = [pc EXCEPT ![p] =
                                  IF call[p].q = Len(qs)
                                  THEN "down_version" ELSE "down_query"]
                ELSE /\ db' = db
                     /\ call' = [call EXCEPT
                                   ![p].status = ReturnWithContextIfError(r),
                                   ![p].faulted = TRUE]
                     /\ pc' = [pc EXCEPT ![p] = "ret"]
    /\ UNCHANGED <<schemes, listvars, execvars, benchvars, snapshot, prev, ncalls>>

\* Mutant: the version is recorded at version 0 as well.
RecordsVersion_always(to_version) == to_version >= 0

\* at version 0, v0.13.2, there is no schema version information.
RecordsVersion(to_version) == to_version > 0

\* if (to_version > 0) UpdateSchemaVersion(to_version); db_version = to_version.
DowngradeUpdateSchemaVersion(p) ==
    /\ pc[p] = "down_version"
    /\ IF RecordsVersion(call[p].to_version)
       THEN LET stmt == UpdateSchemaVersionStmt(call[p].to_version)
            IN  \E r \in ExecOutcomes(stmt, db) :
                  /\ log' = [log EXCEPT ![p] =
                                Append(@, [stmt |-> stmt, ok |-> r = OK])]
                  /\ IF r = OK
                     THEN /\ db' = Apply(stmt, db)
                          /\ call' = [call EXCEPT
                                        ![p].db_version = call[p].to_version]
                          /\ pc' = [pc EXCEPT ![p] = "down_loop"]
                     ELSE /\ db' = db
                          /\ call' = [call EXCEPT
                                   ![p].status = ReturnWithContextIfError(r),
                                   ![p].faulted = TRUE]
                          /\ pc' = [pc EXCEPT ![p] = "ret"]
       ELSE /\ call' = [call EXCEPT ![p].db_version = call[p].to_version]
            /\ pc' = [pc EXCEPT ![p] = "down_loop"]
            /\ UNCHANGED <<db, log>>
    /\ UNCHANGED <<schemes, listvars, execvars, benchvars, snapshot, prev, ncalls>>

\* ------------------------------------------- InitMetadataSourceIfNotExists

\* Mutant: the pinned version is ignored.
FirstStage_ignores_pin(qv) == "upgrade"

\* if (query_schema_version()) return
\* CheckSchemaVersionAlignsWithQueryVersion(); otherwise the upgrade step.
FirstStage(qv) == IF qv.has_value THEN "pinned" ELSE "upgrade"

\* A caller initializes the database through an executor whose
\* query_schema_version() is qv; it starts with GetSchemaVersion, either of
\* CheckSchemaVersionAlignsWithQueryVersion or of the upgrade step.
CallInitMetadataSourceIfNotExists(p, enable_upgrade_migration, qv) ==
    Begin(p, [NoCall EXCEPT
                !.op = "InitIfNotExists",
                !.enable_migration = enable_upgrade_migration,
                !.query_schema_version = qv,
                !.stage = FirstStage(qv)],
          "gsv_env")

\* The versions an executor may be pinned to.
QueryVersions ==
    {nullopt} \cup {[has_value |-> TRUE, value |-> v] : v \in 1..LibVersion}

\* CheckSchemaVersionAlignsWithQueryVersion: the database must report
\* exactly the pinned version.
AlignStatus(status, db_version, qv) ==
    IF status = "NotFound" THEN "FailedPrecondition"
    ELSE IF status # OK THEN status
    ELSE IF db_version # qv.value THEN "FailedPrecondition"
    ELSE OK

CheckSchemaVersionAlignsWithQueryVersion(p) ==
    /\ pc[p] = "probed"
    /\ call[p].op = "InitIfNotExists" /\ call[p].stage = "pinned"
    /\ Return(p, AlignStatus(call[p].get_schema_version_status,
                             call[p].db_version,
                             call[p].query_schema_version))
    /\ UNCHANGED <<db, schemes, listvars, execvars, benchvars, snapshot, log, prev, ncalls>>

\* One of the 15 table checks; its status is pushed onto checks.
InitCheckTable(p) ==
    /\ pc[p] = "init_checks"
    /\ call' = [call EXCEPT
          ![p].checks = @ + 1,
          ![p].missing = IF CheckTable(CheckOrder[call[p].q], db)
                         THEN @ ELSE @ + 1,
          ![p].q = @ + 1]
    /\ pc' = [pc EXCEPT ![p] = IF call[p].q = Len(CheckOrder)
                               THEN "init_decide" ELSE "init_checks"]
    /\ UNCHANGED <<db, schemes, listvars, execvars, benchvars, snapshot, log, prev, ncalls>>

\* Mutant: a partly present schema is completed instead of refused.
InitDecision_completes(checks, missing) ==
    IF missing = 0 THEN OK ELSE "init"

\* Mutant: InitMetadataSource runs whatever the checks found.
InitDecision_always_init(checks, missing) == "init"

\* Mutant: a partly present schema is taken for a complete one.
InitDecision_partial_ok(checks, missing) ==
    IF checks # missing THEN OK ELSE "init"

\* What InitMetadataSourceIfNotExists does once the checks are made
\* (checks.size() of them, missing_schema_error_messages.size() failed): OK
\* when all tables exist, Aborted when some do, "init" (InitMetadataSource)
\* when none does.
InitDecision(checks, missing) ==
    IF missing = 0 THEN OK
    ELSE IF checks # missing THEN "Aborted"
    ELSE "init"

InitDecide(p) ==
    /\ pc[p] = "init_decide"
    /\ IF InitDecision(call[p].checks, call[p].missing) = "init"
       THEN /\ call' = [call EXCEPT ![p].stage = "create", ![p].q = 1]
            /\ pc' = [pc EXCEPT ![p] = "init_create"]
       ELSE Return(p, InitDecision(call[p].checks, call[p].missing))
    /\ UNCHANGED <<db, schemes, listvars, execvars, benchvars, snapshot, log, prev, ncalls>>

\* ------------------------------------------------------ InitMetadataSource

CallInitMetadataSource(p) ==
    Begin(p, [NoCall EXCEPT !.op = "Init", !.stage = "create", !.q = 1],
          "init_create")

\* MLMD_RETURN_IF_ERROR(ExecuteQuery(query_config_.create_..._table()))
InitCreateTable(p) ==
    /\ pc[p] = "init_create"
    /\ LET stmt == CreateTableStmt(call[p].q)
       IN  \E r \in ExecOutcomes(stmt, db) :
             /\ log' = [log EXCEPT ![p] = Append(@, [stmt |-> stmt, ok |-> r = OK])]
             /\ IF r = OK
                THEN /\ db' = Apply(stmt, db)
                     /\ call' = [call EXCEPT
                           ![p].q = IF call[p].q = Len(CreateOrder) THEN 1
                                    ELSE @ + 1]
                     /\ pc' = [pc EXCEPT ![p] =
                                  IF call[p].q < Len(CreateOrder)
                                  THEN "init_create"
                                  ELSE IF NumIndices = 0 THEN "init_insert"
                                  ELSE "init_index"]
                ELSE /\ db' = db
                     /\ call' = [call EXCEPT ![p].status = r,
                                             ![p].faulted = TRUE]
                     /\ pc' = [pc EXCEPT ![p] = "ret"]
    /\ UNCHANGED <<schemes, listvars, execvars, benchvars, snapshot, prev, ncalls>>

\* Mutant: no failure of an index creation is tolerated.
ToleratedIndexError_none(r) == FALSE

\* absl::StrContains(status.message(), "Duplicate key name")
ToleratedIndexError(r) == r = DuplicateKeyName

\* The status code of a driver answer.
Code(r) == IF r = DuplicateKeyName THEN "Internal" ELSE r

\* One secondary index: a failure is returned unless it is tolerated.
InitCreateIndex(p) ==
    /\ pc[p] = "init_index"
    /\ LET stmt == CreateIndexStmt(call[p].q)
       IN  \E r \in IndexOutcomes(stmt, db) :
             /\ log' = [log EXCEPT ![p] = Append(@, [stmt |-> stmt, ok |-> r = OK])]
             /\ db' = IF r = OK THEN Apply(stmt, db) ELSE db
             /\ IF r = OK \/ ToleratedIndexError(r)
                THEN /\ call' = [call EXCEPT
                           ![p].q = @ + 1,
                           ![p].skipped = IF r = OK THEN @ ELSE @ + 1,
                           ![p].message = IF r = OK THEN @ ELSE r]
                     /\ pc' = [pc EXCEPT ![p] =
                                  IF call[p].q < NumIndices
                                  THEN "init_index" ELSE "init_insert"]
                ELSE /\ call' = [call EXCEPT ![p].status = Code(r),
                                             ![p].faulted = TRUE,
                                             ![p].message = r]
                     /\ pc' = [pc EXCEPT ![p] = "ret"]
    /\ UNCHANGED <<schemes, listvars, execvars, benchvars, snapshot, prev, ncalls>>

\* InsertSchemaVersion(library_version); when it fails the version is read
\* again (int64 db_version = -1; GetSchemaVersion(&db_version)).  faulted
\* tells a failure of the driver from a version row that is in the way.
InitInsertSchemaVersion(p) ==
    /\ pc[p] = "init_insert"
    /\ LET stmt == InsertSchemaVersionStmt(LibVersion)
       IN  \E r \in ExecOutcomes(stmt, db) :
             /\ log' = [log EXCEPT ![p] = Append(@, [stmt |-> stmt, ok |-> r = OK])]
             /\ IF r = OK
                THEN /\ db' = Apply(stmt, db)
                     /\ Return(p, OK)
                ELSE /\ db' = db
                     /\ call' = [call EXCEPT
                           ![p].stage = "reread",
                           ![p].db_version = 0 - 1,
                           ![p].faulted = Executable(stmt, db)]
                     /\ pc' = [pc EXCEPT ![p] = "gsv_env"]
    /\ UNCHANGED <<schemes, listvars, execvars, benchvars, snapshot, prev, ncalls>>

\* Mutant: a recorded version that differs from the library's is accepted.
RereadStatus_accepts_other(status, db_version) == status

\* After the failed insert: the error of the probe, DataLoss when the
\* recorded version is not the library's, OK otherwise.
RereadStatus(status, db_version) ==
    IF status # OK THEN status
    ELSE IF db_version # LibVersion THEN "DataLoss"
    ELSE OK

InitReread(p) ==
    /\ pc[p] = "probed"
    /\ call[p].stage = "reread"
    /\ Return(p, RereadStatus(call[p].get_schema_version_status,
                              call[p].db_version))
    /\ UNCHANGED <<db, schemes, listvars, execvars, benchvars, snapshot, log, prev, ncalls>>

\* ------------------------------------------------------- the specification

Next ==
    \E p \in Callers :
        \/ CallGetSchemaVersion(p)
        \/ \E e \in BOOLEAN : CallUpgrade(p, e)
        \/ \E t \in Targets : CallDowngrade(p, t)
        \/ GetSchemaVersionEnv(p)
        \/ GetSchemaVersionLegacy(p)
        \/ GetSchemaVersionReturn(p)
        \/ UpgradeCheckVersion(p)
        \/ UpgradeLoop(p)
        \/ UpgradeQuery(p)
        \/ UpgradeUpdateSchemaVersion(p)
        \/ DowngradeCheckTarget(p)
        \/ DowngradeCheckVersion(p)
        \/ DowngradeLoop(p)
        \/ DowngradeQuery(p)
        \/ DowngradeUpdateSchemaVersion(p)
        \/ EndTransaction(p)

Spec == Init /\ [][Next]_vars

\* ------------------------------------- the specification of initialization

\* The database after the first k table creations of InitMetadataSource.
RECURSIVE CreatedUpTo(_)
CreatedUpTo(k) ==
    IF k = 0 THEN EmptyDB ELSE Apply(CreateTableStmt(k), CreatedUpTo(k - 1))

\* The databases initialization starts from: empty, partly or wholly created
\* without a version row, and holding the schema of some version.
InitInitialDBs ==
    {CreatedUpTo(k) : k \in {0, 1, Len(CreateOrder) - 1, Len(CreateOrder)}}
    \cup {DBAt(v) : v \in 0..(LibVersion + 1)}

InitInit ==
    /\ db \in InitInitialDBs
    /\ schemes = 0..LibVersion
    /\ snapshot = [p \in Procs |-> db]
    /\ pc = [p \in Procs |-> "idle"]
    /\ call = [p \in Procs |-> NoCall]
    /\ log = [p \in Procs |-> <<>>]
    /\ prev = [p \in Procs |-> NoPrev]
    /\ ncalls = [p \in Procs |-> 0]
    /\ ListIdle
    /\ ExecIdle
    /\ BenchIdle

NextInit ==
    \E p \in Callers :
        \/ \E e \in BOOLEAN, qv \in QueryVersions :
              CallInitMetadataSourceIfNotExists(p, e, qv)
        \/ CallInitMetadataSource(p)
        \/ CallGetSchemaVersion(p)
        \/ \E t \in 1..LibVersion : CallDowngrade(p, t)
        \/ GetSchemaVersionEnv(p)
        \/ GetSchemaVersionLegacy(p)
        \/ GetSchemaVersionReturn(p)
        \/ CheckSchemaVersionAlignsWithQueryVersion(p)
        \/ UpgradeCheckVersion(p)
        \/ UpgradeLoop(p)
        \/ UpgradeQuery(p)
        \/ UpgradeUpdateSchemaVersion(p)
        \/ DowngradeCheckTarget(p)
        \/ DowngradeCheckVersion(p)
        \/ DowngradeLoop(p)
        \/ DowngradeQuery(p)
        \/ DowngradeUpdateSchemaVersion(p)
        \/ InitCheckTable(p)
        \/ InitDecide(p)
        \/ InitCreateTable(p)
        \/ InitCreateIndex(p)
        \/ InitInsertSchemaVersion(p)
        \/ InitReread(p)
        \/ EndTransaction(p)

SpecInit == InitInit /\ [][NextInit]_vars


\* ------------------------------------ the specification of racing callers

\* The call returned on a connection whose statements commit implicitly
\* (an engine without transactional DDL): what the call wrote stays, and was
\* visible to the other connections as soon as it was written.
EndCall(p) ==
    /\ pc[p] = "ret"
    /\ pc' = [pc EXCEPT ![p] = "done"]
    /\ UNCHANGED <<db, schemes, listvars, execvars, benchvars, snapshot, call, log, prev, ncalls>>

\* Two callers of the same library version share an initially empty
\* database; each of them makes one call.
RaceInit ==
    /\ db = EmptyDB
    /\ schemes = 0..LibVersion
    /\ snapshot = [p \in Procs |-> db]
    /\ pc = [p \in Procs |-> "idle"]
    /\ call = [p \in Procs |-> NoCall]
    /\ log = [p \in Procs |-> <<>>]
    /\ prev = [p \in Procs |-> NoPrev]
    /\ ncalls = [p \in Procs |-> MaxCalls - 1]
    /\ ListIdle
    /\ ExecIdle
    /\ BenchIdle

\* The first caller is the one that starts first.
MayStart(p) == p = 1 \/ pc[1] # "idle"

\* The driver executes every statement it can: the races are between the
\* callers, not with failures of the driver.
NextRace ==
    \E p \in Procs :
        \/ \E e \in BOOLEAN :
              MayStart(p) /\ CallInitMetadataSourceIfNotExists(p, e, nullopt)
        \/ MayStart(p) /\ CallInitMetadataSource(p)
        \/ GetSchemaVersionEnv(p)
        \/ GetSchemaVersionLegacy(p)
        \/ UpgradeCheckVersion(p)
        \/ InitCheckTable(p)
        \/ InitDecide(p)
        \/ InitCreateTable(p) /\ ~call'[p].faulted
        \/ InitCreateIndex(p) /\ ~call'[p].faulted
        \/ InitInsertSchemaVersion(p) /\ ~call'[p].faulted
        \/ InitReread(p)
        \/ EndCall(p)

SpecRace == RaceInit /\ [][NextRace]_vars

\* ------------------------------------------------ the store facade: retries

\* the number of times the facade retries a call.
MaxRetries == 2

\* The errors the facade retries: transient ones, reported as Aborted.
Retryable_any_error(status) == status # OK
Retryable(status) == status = "Aborted"

\* The facade retries the call of caller p: the transaction of the failed
\* attempt is rolled back and the call runs again in a new one.
Retry(p) ==
    /\ pc[p] = "ret"
    /\ Retryable(call[p].status)
    /\ call[p].attempts < MaxRetries
    /\ db' = Rollback(snapshot[p], db)
    /\ call' = [call EXCEPT ![p] =
                   [NoCall EXCEPT !.op = call[p].op,
                                  !.enable_migration = call[p].enable_migration,
                                  !.attempts = call[p].attempts + 1]]
    /\ log' = [log EXCEPT ![p] = <<>>]
    /\ pc' = [pc EXCEPT ![p] = "gsv_env"]
    /\ UNCHANGED <<schemes, listvars, execvars, benchvars, snapshot, prev, ncalls>>

\* The facade returns the status of the last attempt, committed or rolled
\* back.
FacadeReturn(p) ==
    /\ ~(Retryable(call[p].status) /\ call[p].attempts < MaxRetries)
    /\ EndTransaction(p)

\* One public call of caller 1, a probe or an upgrade, through the facade.
RetryInit ==
    /\ db \in InitialDBs
    /\ schemes \in Catalogs
    /\ snapshot = [p \in Procs |-> db]
    /\ pc = [p \in Procs |-> "idle"]
    /\ call = [p \in Procs |-> NoCall]
    /\ log = [p \in Procs |-> <<>>]
    /\ prev = [p \in Procs |-> NoPrev]
    /\ ncalls = [p \in Procs |-> MaxCalls - 1]
    /\ ListIdle
    /\ ExecIdle
    /\ BenchIdle

NextRetry ==
    \E p \in Callers :
        \/ CallGetSchemaVersion(p)
        \/ \E e \in BOOLEAN : CallUpgrade(p, e)
        \/ GetSchemaVersionEnv(p)
        \/ GetSchemaVersionLegacy(p)
        \/ GetSchemaVersionReturn(p)
        \/ UpgradeCheckVersion(p)
        \/ UpgradeLoop(p)
        \/ UpgradeQuery(p)
        \/ UpgradeUpdateSchemaVersion(p)
        \/ Retry(p)
        \/ FacadeReturn(p)

\* The caller's thread runs: a call that can take a step takes one.
SpecRetry == RetryInit /\ [][NextRetry]_vars /\ WF_vars(NextRetry)

\* --------------------------------------- query executor: template queries

\* the ids of the nodes and types the edges are between: 1..NumIds.
NumIds == 3

\* the number of calls on the edge tables in one behaviour.
MaxPuts == 3

\* the parameter counts tried, of templates and of calls: 0..MaxParameters.
MaxParameters == 11

\* the number of parameters ExecuteQuery supports.
MaxTemplateParameters == 10

\* Bind(int64): the decimal digits.
Bind(value) == ToString(value)

\* Bind(bool)
Bind_bool(value) == IF value THEN "1" ELSE "0"

\* Bind(absl::string_view): the value between single quotes; the values bound
\* hold no character EscapeString changes.
Bind_string(value) == "'" \o value \o "'"

\* The template of an insertion into table t with n placeholders, as the
\* sequence of its tokens.
InsertTemplate(t, n) ==
    [query |-> <<"INSERT INTO", t, "VALUES">> \o
               [i \in 1..n |-> "$" \o ToString(i - 1)],
     parameter_num |-> n]

insert_parent_type == InsertTemplate("ParentType", 2)
insert_parent_context == InsertTemplate("ParentContext", 2)
insert_attribution == InsertTemplate("Attribution", 2)
insert_association == InsertTemplate("Association", 2)
insert_event_path == InsertTemplate("EventPath", 4)

\* absl::StrReplaceAll(query, {{"$0", parameters[0]}, ...}).
StrReplaceAll(query, parameters) ==
    [i \in DOMAIN query |->
        IF \E k \in DOMAIN parameters : query[i] = "$" \o ToString(k - 1)
        THEN parameters[CHOOSE k \in DOMAIN parameters :
                            query[i] = "$" \o ToString(k - 1)]
        ELSE query[i]]

\* MetadataSource::ExecuteQuery for an insertion: the two key columns of an
\* edge table are its unique key, and a second row with a stored key is a
\* constraint violation; a statement with another number of values, or with
\* a placeholder left in it, is not valid SQL. EventPath has four columns
\* and no unique key.
SourceExecuteQuery(sql, tbls) ==
    LET row == SubSeq(sql, 4, Len(sql))
    IN  IF sql[2] = "EventPath"
        THEN IF \/ Len(row) # 4
                \/ \E i \in DOMAIN row :
                      row[i] \in {"$" \o ToString(k) : k \in 0..MaxParameters}
             THEN [status |-> "Internal", tables |-> tbls]
             ELSE [status |-> OK,
                   tables |-> [tbls EXCEPT !["EventPath"] = Append(@, row)]]
        ELSE
        IF \/ Len(row) # 2
           \/ \E i \in DOMAIN row : row[i] \notin {Bind(v) : v \in 0..(NumIds + 1)}
        THEN [status |-> "Internal", tables |-> tbls]
        ELSE IF \E i \in DOMAIN tbls[sql[2]] : tbls[sql[2]][i] = row
        THEN [status |-> "AlreadyExists", tables |-> tbls]
        ELSE [status |-> OK,
              tables |-> [tbls EXCEPT ![sql[2]] = Append(@, row)]]

\* QueryConfigExecutor::ExecuteQuery(template_query, parameters, record_set).
ExecuteQuery_any_count(template_query, parameters, tbls) ==
    LET sql == StrReplaceAll(template_query.query, parameters)
        r == SourceExecuteQuery(sql, tbls)
    IN  [status |-> r.status, fatal |-> FALSE, sent |-> <<sql>>,
         tables |-> r.tables]
ExecuteQuery(template_query, parameters, tbls) ==
    IF Len(parameters) > MaxTemplateParameters
    THEN [status |-> "InvalidArgument", fatal |-> FALSE, sent |-> <<>>,
          tables |-> tbls]
    ELSE IF template_query.parameter_num # Len(parameters)
    THEN [status |-> "none", fatal |-> TRUE, sent |-> <<>>, tables |-> tbls]
    ELSE LET sql == StrReplaceAll(template_query.query, parameters)
             r == SourceExecuteQuery(sql, tbls)
         IN  [status |-> r.status, fatal |-> FALSE, sent |-> <<sql>>,
              tables |-> r.tables]

InsertParentType(type_id, parent_type_id, tbls) ==
    ExecuteQuery(insert_parent_type, <<Bind(type_id), Bind(parent_type_id)>>,
                 tbls)

InsertParentContext_parent_first(parent_id, child_id, tbls) ==
    ExecuteQuery(insert_parent_context, <<Bind(parent_id), Bind(child_id)>>,
                 tbls)
InsertParentContext(parent_id, child_id, tbls) ==
    ExecuteQuery(insert_parent_context, <<Bind(child_id), Bind(parent_id)>>,
                 tbls)

InsertAttribution(context_id, artifact_id, tbls) ==
    ExecuteQuery(insert_attribution, <<Bind(context_id), Bind(artifact_id)>>,
                 tbls)

InsertAssociation(context_id, execution_id, tbls) ==
    ExecuteQuery(insert_association, <<Bind(context_id), Bind(execution_id)>>,
                 tbls)

\* Event::Path::Step: value is a oneof of index and key.
Steps ==
    {[value_case |-> "kIndex", index |-> i, key |-> ""] : i \in {0, NumIds}}
    \cup {[value_case |-> "kKey", index |-> 0, key |-> "k"]}
    \cup {[value_case |-> "VALUE_NOT_SET", index |-> 0, key |-> ""]}

has_index(step) == step.value_case = "kIndex"
has_key(step) == step.value_case = "kKey"

\* Mutant: a step with no value is an invalid argument.
InsertEventPath_rejects_unset(event_id, step, tbls) ==
    IF has_index(step)
    THEN ExecuteQuery(insert_event_path,
                      <<Bind(event_id), "step_index", Bind_bool(TRUE),
                        Bind(step.index)>>, tbls)
    ELSE IF has_key(step)
    THEN ExecuteQuery(insert_event_path,
                      <<Bind(event_id), "step_key", Bind_bool(FALSE),
                        Bind_string(step.key)>>, tbls)
    ELSE [status |-> "InvalidArgument", fatal |-> FALSE, sent |-> <<>>,
          tables |-> tbls]

\* QueryConfigExecutor::InsertEventPath(event_id, step)
InsertEventPath(event_id, step, tbls) ==
    IF has_index(step)
    THEN ExecuteQuery(insert_event_path,
                      <<Bind(event_id), "step_index", Bind_bool(TRUE),
                        Bind(step.index)>>, tbls)
    ELSE IF has_key(step)
    THEN ExecuteQuery(insert_event_path,
                      <<Bind(event_id), "step_key", Bind_bool(FALSE),
                        Bind_string(step.key)>>, tbls)
    ELSE [status |-> OK, fatal |-> FALSE, sent |-> <<>>, tables |-> tbls]

\* --------------------------------------- metadata access object: the edges

\* the tables whose edges form a hierarchy.
Hierarchies == {"ParentType", "ParentContext"}

\* The ids reached from the ids of s by following the edges of rows from
\* child to parent, s included.
RECURSIVE Ancestors(_, _)
Ancestors(rows, s) ==
    LET more == {v \in 1..NumIds :
                    \E i \in DOMAIN rows, u \in s :
                        rows[i] = <<Bind(u), Bind(v)>>}
    IN  IF more \subseteq s THEN s ELSE Ancestors(rows, s \cup more)

\* The edge from child to parent would close a cycle: the child is the
\* parent or one of its ancestors.
WouldCycle(rows, child, parent) == child \in Ancestors(rows, {parent})

\* The insertion of the edge (a, b) into table t by the executor: b is the
\* parent in the two hierarchies.
InsertEdge(t, a, b, tbls) ==
    CASE t = "ParentType" -> InsertParentType(a, b, tbls)
      [] t = "ParentContext" -> InsertParentContext(b, a, tbls)
      [] t = "Attribution" -> InsertAttribution(a, b, tbls)
      [] t = "Association" -> InsertAssociation(a, b, tbls)

\* The status of an idempotent insertion: a duplicate key resolves to OK.
IdempotentInsertStatus_verbatim(status) == status
IdempotentInsertStatus(status) ==
    IF status = "AlreadyExists" THEN OK ELSE status

\* PutParentType, PutParentContext, PutAttribution and PutAssociation, as
\* ran on tables tbls.
PutEdgeResult(t, a, b, tbls) ==
    IF t \in Hierarchies /\ WouldCycle(tbls[t], a, b)
    THEN [status |-> "InvalidArgument", fatal |-> FALSE, sent |-> <<>>,
          tables |-> tbls]
    ELSE LET r == InsertEdge(t, a, b, tbls)
         IN  [r EXCEPT !.status = IdempotentInsertStatus(r.status)]

\* One of the four calls, on one table in a behaviour.
PutEdge(t, a, b) ==
    /\ exec.pc # "aborted"
    /\ exec.n < MaxPuts
    /\ LET r == PutEdgeResult(t, a, b, tables)
       IN  /\ tables' = r.tables
           /\ exec' = [pc |-> IF r.fatal THEN "aborted" ELSE "done",
                       op |-> t, args |-> <<a, b>>, parameter_num |-> 2,
                       status |-> r.status, fatal |-> r.fatal,
                       sent |-> r.sent, before |-> tables,
                       n |-> exec.n + 1]
    /\ UNCHANGED <<schemavars, listvars, benchvars>>

\* A call of ExecuteQuery on a template that declares parameter_num
\* parameters, with the given parameters.
ExecuteTemplate(t, parameter_num, parameters) ==
    /\ exec.pc # "aborted"
    /\ exec.n < MaxPuts
    /\ LET r == ExecuteQuery(InsertTemplate(t, parameter_num), parameters,
                             tables)
       IN  /\ tables' = r.tables
           /\ exec' = [pc |-> IF r.fatal THEN "aborted" ELSE "done",
                       op |-> "ExecuteQuery", args |-> parameters,
                       parameter_num |-> parameter_num,
                       status |-> r.status, fatal |-> r.fatal,
                       sent |-> r.sent, before |-> tables,
                       n |-> exec.n + 1]
    /\ UNCHANGED <<schemavars, listvars, benchvars>>

\* The parameters a call binds: the digits of consecutive ids.
ParameterLists ==
    {[i \in 1..n |-> Bind((x + i) % (NumIds + 1))] :
        n \in 0..MaxParameters, x \in 0..1}

\* An opened store at the library's version, its edge tables empty.
EdgesInit ==
    /\ db = DBAt(LibVersion)
    /\ schemes = 0..LibVersion
    /\ snapshot = [p \in Procs |-> db]
    /\ pc = [p \in Procs |-> "idle"]
    /\ call = [p \in Procs |-> NoCall]
    /\ log = [p \in Procs |-> <<>>]
    /\ prev = [p \in Procs |-> NoPrev]
    /\ ncalls = [p \in Procs |-> 0]
    /\ ListIdle
    /\ ExecIdle
    /\ BenchIdle

\* A call of InsertEventPath for one step of the path of event event_id.
PutEventPath(event_id, step) ==
    /\ exec.pc # "aborted"
    /\ exec.n < MaxPuts
    /\ LET r == InsertEventPath(event_id, step, tables)
       IN  /\ tables' = r.tables
           /\ exec' = [pc |-> IF r.fatal THEN "aborted" ELSE "done",
                       op |-> "InsertEventPath", args |-> <<event_id, step>>,
                       parameter_num |-> insert_event_path.parameter_num,
                       status |-> r.status, fatal |-> r.fatal,
                       sent |-> r.sent, before |-> tables,
                       n |-> exec.n + 1]
    /\ UNCHANGED <<schemavars, listvars, benchvars>>

NextPath == \E event_id \in 1..NumIds, step \in Steps : PutEventPath(event_id, step)

SpecPath == EdgesInit /\ [][NextPath]_vars

NextEdges ==
    \E t \in EdgeTables :
        /\ \A u \in EdgeTables \ {t} : tables[u] = <<>>
        /\ \E a \in 1..NumIds, b \in 1..NumIds : PutEdge(t, a, b)

SpecEdges == EdgesInit /\ [][NextEdges]_vars

NextTemplate ==
    \/ /\ exec.n = 0
       /\ \E t \in EdgeTables, a \in 1..NumIds, b \in 1..NumIds :
              PutEdge(t, a, b)
    \/ /\ exec.n = 1
       /\ \E t \in EdgeTables, parameter_num \in 0..MaxParameters,
             parameters \in ParameterLists :
              ExecuteTemplate(t, parameter_num, parameters)

SpecTemplate == EdgesInit /\ [][NextTemplate]_vars

\* ------------------------------- mlmd_bench: read nodes by properties

\* the number of operations of a workload: 0..MaxOperations.
MaxOperations == 2

\* the nodes in the store when the workload is set up: 0..MaxExisting.
MaxExisting == 2

\* num_of_parameters: 0 <= minimum <= maximum <= MaxNumParameters.
MaxNumParameters == 2

kInt64IdSize == 8
kInt64TypeIdSize == 8
kInt64CreateTimeSize == 8
kInt64LastUpdateTimeSize == 8
kEnumStateSize == 1

\* The specifications that read nodes by a list of ids.
ByIdSpecifications == {"ARTIFACTS_BY_ID", "EXECUTIONS_BY_ID", "CONTEXTS_BY_ID"}

\* GetExistingNodes: the n nodes of the store; a string field is its size,
\* and the two property maps are their bytes.
ExistingNodes(n) ==
    [i \in 1..n |-> [id |-> NumIds + i, name |-> i, type |-> 1, uri |-> 2 * i,
                     properties |-> i - 1, custom_properties |-> 0]]

\* GetTransferredBytes of an Artifact, an Execution and a Context.
GetTransferredBytes(specification, node) ==
    kInt64IdSize + kInt64TypeIdSize + kInt64CreateTimeSize +
    kInt64LastUpdateTimeSize + node.name + node.type +
    (IF specification = "ARTIFACTS_BY_ID" THEN node.uri ELSE 0) +
    (IF specification = "CONTEXTS_BY_ID" THEN 0 ELSE kEnumStateSize) +
    node.properties + node.custom_properties

\* GetArtifactsByIDRequest(), GetExecutionsByIDRequest() and
\* GetContextsByIDRequest(): a request with no ids.
EmptyRequest(specification) ==
    [type |-> CASE specification = "ARTIFACTS_BY_ID" -> "GetArtifactsByIDRequest"
                [] specification = "EXECUTIONS_BY_ID" -> "GetExecutionsByIDRequest"
                [] specification = "CONTEXTS_BY_ID" -> "GetContextsByIDRequest",
     ids |-> <<>>]

\* A default-constructed ReadNodesByPropertiesWorkItemType.
DefaultRequest == [type |-> "default", ids |-> <<>>]

\* SetUpImplForReadNodesByIds: the loop over the node indexes drawn, one per
\* id, from read_request and curr_bytes as they are before the iteration. Each
\* iteration assigns a new request, adds the id of the node to it and adds
\* the bytes of the node to curr_bytes.
RECURSIVE SetUpImplForReadNodesByIds(_, _, _, _, _)
SetUpImplForReadNodesByIds(specification, existing_nodes, node_indexes, read_request, curr_bytes) ==
    IF node_indexes = <<>>
    THEN [request |-> read_request, bytes |-> curr_bytes]
    ELSE LET node == existing_nodes[Head(node_indexes)]
             assigned == EmptyRequest(specification)
         IN  SetUpImplForReadNodesByIds(
                 specification, existing_nodes, Tail(node_indexes),
                 [assigned EXCEPT !.ids = Append(@, node.id)],
                 curr_bytes + GetTransferredBytes(specification, node))

\* ReadNodesByProperties::SetUpImpl up to its loop: it reads the nodes of the
\* store and returns FailedPrecondition when there is none.
SetUpImpl(specification, num_operations, minimum, maximum, n) ==
    /\ bench.pc = "idle"
    /\ bench' = [bench EXCEPT
                    !.pc = IF n = 0 THEN "done" ELSE "loop",
                    !.specification = specification,
                    !.num_operations = num_operations,
                    !.minimum = minimum,
                    !.maximum = maximum,
                    !.existing_nodes = ExistingNodes(n),
                    !.status = IF n = 0 THEN "FailedPrecondition" ELSE OK]
    /\ UNCHANGED <<schemavars, listvars, execvars>>

\* One iteration of the loop of SetUpImpl: num_ids is what num_ids_dist(gen)
\* returned and node_indexes what node_index_dist(gen) returned, one draw for
\* each id.
PrepareWorkItem(num_ids, node_indexes) ==
    /\ bench.pc = "loop"
    /\ Len(bench.work_items) < bench.num_operations
    /\ LET r == SetUpImplForReadNodesByIds(bench.specification,
                                           bench.existing_nodes, node_indexes,
                                           DefaultRequest, 0)
       IN  bench' = [bench EXCEPT
                        !.work_items =
                            Append(@, [request |-> r.request,
                                       bytes |-> r.bytes, num |-> num_ids])]
    /\ UNCHANGED <<schemavars, listvars, execvars>>

\* SetUpImpl returns after the last iteration.
SetUpReturns ==
    /\ bench.pc = "loop"
    /\ Len(bench.work_items) >= bench.num_operations
    /\ bench' = [bench EXCEPT !.pc = "done"]
    /\ UNCHANGED <<schemavars, listvars, execvars>>

NextBench ==
    \/ \E specification \in ByIdSpecifications,
          num_operations \in 0..MaxOperations,
          maximum \in 0..MaxNumParameters, n \in 0..MaxExisting :
          \E minimum \in 0..maximum :
              SetUpImpl(specification, num_operations, minimum, maximum, n)
    \/ /\ bench.pc = "loop"
       /\ \E num_ids \in bench.minimum..bench.maximum :
              \E node_indexes \in [1..num_ids -> 1..Len(bench.existing_nodes)] :
                  PrepareWorkItem(num_ids, node_indexes)
    \/ SetUpReturns

SpecBench == EdgesInit /\ [][NextBench]_vars

\* ------------------------------------------------------ list operation helper

\* number of rows the node table can hold.
MaxNodes == 3
\* the last millisecond of the wall clock.
MaxTime == 1
\* the largest page size a scan asks for.
MaxPageSize == 2

\* ------------------------------------------------------ page token encoding

\* The options a token carries in set_options: the request's options without
\* its token.
SetOptionsOf(o) ==
    [max_result_size |-> o.max_result_size, field |-> o.field,
     is_asc |-> o.is_asc]

\* A protobuf varint: seven bits a byte, low bits first, the high bit set
\* on every byte but the last (of a number that is not negative).
RECURSIVE Varint(_)
Varint(n) ==
    IF n < 128 THEN <<n>> ELSE <<128 + (n % 128)>> \o Varint(n \div 128)

\* ListOperationNextPageToken::SerializeAsString(): the fields that are set,
\* by field number: id_offset (1), field_offset (2), set_options (3, with
\* max_result_size (1) and order_by_field (2: field (1), is_asc (2))), and
\* one entry per element of listed_ids (4).  A field is a tag byte
\* (number * 8 + wire type) and a varint, or a tag, a length and the bytes.
SerializeAsString(t) ==
    LET FieldNumber(f) == CASE f = "CREATE_TIME" -> 1
                            [] f = "LAST_UPDATE_TIME" -> 2
                            [] f = "ID" -> 3
        order_by == <<8, FieldNumber(t.set_options.field),
                      16, IF t.set_options.is_asc THEN 1 ELSE 0>>
        options == <<8>> \o Varint(t.set_options.max_result_size)
                   \o <<18>> \o Varint(Len(order_by)) \o order_by
        Listed[k \in 0..Len(t.listed_ids)] ==
            IF k = 0 THEN <<>>
            ELSE Listed[k - 1] \o <<32>> \o Varint(t.listed_ids[k])
    IN  (IF t.has_id_offset THEN <<8>> \o Varint(t.id_offset) ELSE <<>>)
        \o <<16>> \o Varint(t.field_offset)
        \o <<26>> \o Varint(Len(options)) \o options
        \o Listed[Len(t.listed_ids)]

\* The 64 characters of the URL-safe base64 alphabet.
WebSafeBase64Chars ==
    <<"A", "B", "C", "D", "E", "F", "G", "H", "I", "J", "K", "L", "M", "N",
      "O", "P", "Q", "R", "S", "T", "U", "V", "W", "X", "Y", "Z",
      "a", "b", "c", "d", "e", "f", "g", "h", "i", "j", "k", "l", "m", "n",
      "o", "p", "q", "r", "s", "t", "u", "v", "w", "x", "y", "z",
      "0", "1", "2", "3", "4", "5", "6", "7", "8", "9", "-", "_">>

\* absl::WebSafeBase64Escape(bytes): four characters for three bytes, two or
\* three characters for a last one or two bytes, no padding.
RECURSIVE WebSafeBase64Escape(_)
WebSafeBase64Escape(b) ==
    LET C(n) == WebSafeBase64Chars[n + 1] IN
    IF Len(b) = 0 THEN <<>>
    ELSE IF Len(b) = 1
    THEN <<C(b[1] \div 4), C((b[1] % 4) * 16)>>
    ELSE IF Len(b) = 2
    THEN <<C(b[1] \div 4), C((b[1] % 4) * 16 + b[2] \div 16),
           C((b[2] % 16) * 4)>>
    ELSE <<C(b[1] \div 4), C((b[1] % 4) * 16 + b[2] \div 16),
           C((b[2] % 16) * 4 + b[3] \div 64), C(b[3] % 64)>>
         \o WebSafeBase64Escape(SubSeq(b, 4, Len(b)))

\* The six-bit values of the characters cs.
SixBits(cs) ==
    [k \in 1..Len(cs) |->
        (CHOOSE n \in 1..64 : WebSafeBase64Chars[n] = cs[k]) - 1]

\* The bytes of six-bit values v: three bytes of four values, one or two
\* bytes of a last two or three.
RECURSIVE BytesOfSixBits(_)
BytesOfSixBits(v) ==
    IF Len(v) < 2 THEN <<>>
    ELSE IF Len(v) = 2 THEN <<v[1] * 4 + v[2] \div 16>>
    ELSE IF Len(v) = 3
    THEN <<v[1] * 4 + v[2] \div 16, (v[2] % 16) * 16 + v[3] \div 4>>
    ELSE <<v[1] * 4 + v[2] \div 16, (v[2] % 16) * 16 + v[3] \div 4,
           (v[3] % 4) * 64 + v[4]>>
         \o BytesOfSixBits(SubSeq(v, 5, Len(v)))

\* absl::WebSafeBase64Unescape(cs): padding is permitted; a character outside
\* the alphabet, or a single left-over character, fails.
WebSafeBase64Unescape(cs) ==
    LET unpadded == SelectSeq(cs, LAMBDA c : c # "=") IN
    IF \/ \E k \in 1..Len(unpadded) :
             \A n \in 1..64 : WebSafeBase64Chars[n] # unpadded[k]
       \/ Len(unpadded) % 4 = 1
    THEN [ok |-> FALSE, bytes |-> <<>>]
    ELSE [ok |-> TRUE, bytes |-> BytesOfSixBits(SixBits(unpadded))]

\* The varint at position i of bytes b, and the position after it.
RECURSIVE ReadVarint(_, _)
ReadVarint(b, i) ==
    IF b[i] < 128 THEN [value |-> b[i], next |-> i + 1]
    ELSE LET rest == ReadVarint(b, i + 1)
         IN  [value |-> (b[i] - 128) + 128 * rest.value, next |-> rest.next]

\* The fields of the message in bytes b from position i: the number of each
\* and its value, a varint (wire type 0) or bytes (wire type 2).
RECURSIVE ParseFields(_, _)
ParseFields(b, i) ==
    IF i > Len(b) THEN <<>>
    ELSE LET tag == ReadVarint(b, i)
             v == ReadVarint(b, tag.next)
         IN  IF tag.value % 8 = 0
             THEN <<[number |-> tag.value \div 8, value |-> <<v.value>>]>>
                  \o ParseFields(b, v.next)
             ELSE <<[number |-> tag.value \div 8,
                     value |-> SubSeq(b, v.next, v.next + v.value - 1)]>>
                  \o ParseFields(b, v.next + v.value)

\* ListOperationNextPageToken::ParseFromString(bytes): a field that is absent
\* has its default (max_result_size 20, field ID, is_asc true, offsets 0).
ParseFromString(b) ==
    LET Of(fs, n) == SelectSeq(fs, LAMBDA f : f.number = n)
        Last(fs, n, default) ==
            IF Of(fs, n) = <<>> THEN default
            ELSE Of(fs, n)[Len(Of(fs, n))].value[1]
        Sub(fs, n) ==
            IF Of(fs, n) = <<>> THEN <<>>
            ELSE ParseFields(Of(fs, n)[Len(Of(fs, n))].value, 1)
        fields == ParseFields(b, 1)
        options == Sub(fields, 3)
        order_by == Sub(options, 2)
        field == Last(order_by, 1, 3)
    IN  [field_offset |-> Last(fields, 2, 0),
         has_id_offset |-> Of(fields, 1) # <<>>,
         id_offset |-> Last(fields, 1, 0),
         listed_ids |-> [k \in 1..Len(Of(fields, 4)) |->
                            Of(fields, 4)[k].value[1]],
         set_options |->
            [max_result_size |-> Last(options, 1, 20),
             field |-> CASE field = 1 -> "CREATE_TIME"
                         [] field = 2 -> "LAST_UPDATE_TIME"
                         [] OTHER -> "ID",
             is_asc |-> Last(order_by, 2, 1) = 1]]

\* The next_page_token string of token t, as the server issues it and as the
\* helper's tests build it.
EncodeListOperationNextPageToken_no_options(t) ==
    WebSafeBase64Escape(SerializeAsString(
        [t EXCEPT !.set_options = [max_result_size |-> 20, field |-> "ID",
                                   is_asc |-> TRUE]]))
EncodeListOperationNextPageToken(t) ==
    WebSafeBase64Escape(SerializeAsString(t))

\* Decoding the next_page_token string cs: InvalidArgument when it is not
\* URL-safe base64, else the token.
DecodeListOperationNextPageToken(cs) ==
    LET unescaped == WebSafeBase64Unescape(cs) IN
    IF unescaped.ok
    THEN [status |-> OK, token |-> ParseFromString(unescaped.bytes)]
    ELSE [status |-> "InvalidArgument", token |-> NoToken]

\* The quote around a column name in the emitted SQL (a backquote in the
\* source; strings here cannot hold one).
BQ == "'"

\* The column a field orders by.
Column(field) ==
    CASE field = "CREATE_TIME" -> "create_time_since_epoch"
      [] field = "LAST_UPDATE_TIME" -> "last_update_time_since_epoch"
      [] field = "ID" -> "id"

\* The comparison on the ordering column: inclusive, so that rows sharing the
\* last value of the page are not cut off.
FieldOp_strict(is_asc) == IF is_asc THEN ">" ELSE "<"
FieldOp(is_asc) == IF is_asc THEN ">=" ELSE "<="

\* The comparison on id: strict.
IdOp_inclusive(is_asc) == IF is_asc THEN ">=" ELSE "<="
IdOp(is_asc) == IF is_asc THEN ">" ELSE "<"

\* Mutant: the threshold compares the ordering field only.
ThresholdClause_field_only(options, token) ==
    <<[column |-> Column(options.field), op |-> FieldOp(options.is_asc),
       value |-> <<token.field_offset>>]>>

\* The conjuncts of the ordering threshold of options and its decoded page
\* token: a comparison is [column, op, value], a NOT IN carries the listed
\* ids in value.
ThresholdClause(options, token) ==
    IF options.field = "ID"
    THEN <<[column |-> "id", op |-> IdOp(options.is_asc),
            value |-> <<token.field_offset>>]>>
    ELSE <<[column |-> Column(options.field), op |-> FieldOp(options.is_asc),
            value |-> <<token.field_offset>>],
           IF token.has_id_offset
           THEN [column |-> "id", op |-> IdOp(options.is_asc),
                 value |-> <<token.id_offset>>]
           ELSE [column |-> "id", op |-> "NOT IN",
                 value |-> token.listed_ids]>>

\* absl::StrJoin(ids, ",")
RECURSIVE StrJoin(_)
StrJoin(ids) ==
    IF Len(ids) = 0 THEN ""
    ELSE IF Len(ids) = 1 THEN ToString(ids[1])
    ELSE ToString(ids[1]) \o "," \o StrJoin(Tail(ids))

\* The text of the conjuncts cs: the quoted column, the operator and the
\* value of each, joined by AND.
RECURSIVE ConjunctsText(_)
ConjunctsText(cs) ==
    LET c == cs[1]
        text == BQ \o c.column \o BQ \o " " \o c.op \o " " \o
                (IF c.op = "NOT IN" THEN "(" \o StrJoin(c.value) \o ")"
                 ELSE StrJoin(c.value))
    IN  IF Len(cs) = 1 THEN text
        ELSE text \o " AND " \o ConjunctsText(Tail(cs))

\* AppendOrderingThresholdClause(options, sql_query_clause): what it appends
\* for options whose next_page_token decodes to token.
AppendOrderingThresholdClause(options, token) ==
    " " \o ConjunctsText(ThresholdClause(options, token)) \o " "

\* The sort keys of the ORDER BY: the ordering column, then id as tie-break,
\* both in the requested direction.
OrderByKeys_no_tie_break(options) ==
    <<[column |-> Column(options.field), is_asc |-> options.is_asc]>>
OrderByKeys(options) ==
    IF options.field = "ID"
    THEN <<[column |-> "id", is_asc |-> options.is_asc]>>
    ELSE <<[column |-> Column(options.field), is_asc |-> options.is_asc],
           [column |-> "id", is_asc |-> options.is_asc]>>

\* The text of the sort keys ks: the quoted column and the direction of
\* each, joined by commas.
RECURSIVE KeysText(_)
KeysText(ks) ==
    LET k == ks[1]
        text == BQ \o k.column \o BQ \o " " \o
                (IF k.is_asc THEN "ASC" ELSE "DESC")
    IN  IF Len(ks) = 1 THEN text
        ELSE text \o ", " \o KeysText(Tail(ks))

\* AppendOrderByClause(options, sql_query_clause): what it appends.
AppendOrderByClause(options) == " ORDER BY " \o KeysText(OrderByKeys(options)) \o " "

\* The most rows one statement asks for: one more than the largest page.
MaxListOperationResultSize == 101

\* The row count of the LIMIT clause.
LimitOf_uncapped(max_result_size) == max_result_size
LimitOf_one_more(max_result_size) ==
    (IF max_result_size < MaxListOperationResultSize - 1
     THEN max_result_size ELSE MaxListOperationResultSize - 1) + 1
LimitOf(max_result_size) ==
    IF max_result_size < MaxListOperationResultSize
    THEN max_result_size ELSE MaxListOperationResultSize

\* AppendLimitClause(options, sql_query_clause): InvalidArgument for a
\* max_result_size that is not positive, else OK and the clause.
AppendLimitClause_accepts_zero(options) ==
    IF options.max_result_size < 0
    THEN [status |-> "InvalidArgument", text |-> ""]
    ELSE [status |-> OK,
          text |-> " LIMIT " \o ToString(LimitOf(options.max_result_size)) \o " "]
AppendLimitClause(options) ==
    IF options.max_result_size <= 0
    THEN [status |-> "InvalidArgument", text |-> ""]
    ELSE [status |-> OK,
          text |-> " LIMIT " \o ToString(LimitOf(options.max_result_size)) \o " "]

\* ------------------------------------------------ the driver: a SELECT of ids

\* The row of node id as the statement sees it.
Row(ns, id) ==
    [id |-> id,
     create_time_since_epoch |-> ns[id].create_time,
     last_update_time_since_epoch |-> ns[id].last_update_time]

\* Whether row r satisfies conjunct c.
Holds(c, r) ==
    CASE c.op = "<=" -> r[c.column] <= c.value[1]
      [] c.op = ">=" -> r[c.column] >= c.value[1]
      [] c.op = "<" -> r[c.column] < c.value[1]
      [] c.op = ">" -> r[c.column] > c.value[1]
      [] c.op = "NOT IN" -> \A k \in 1..Len(c.value) : r.id # c.value[k]

\* Whether row a comes before row b under the sort keys ks.
RECURSIVE Before(_, _, _)
Before(ks, a, b) ==
    IF Len(ks) = 0 THEN FALSE
    ELSE LET k == ks[1] IN
         IF a[k.column] # b[k.column]
         THEN IF k.is_asc THEN a[k.column] < b[k.column]
              ELSE a[k.column] > b[k.column]
         ELSE Before(Tail(ks), a, b)

\* The rows of set rs in the order of the sort keys ks.
RECURSIVE SortRows(_, _)
SortRows(ks, rs) ==
    IF rs = {} THEN <<>>
    ELSE LET first == CHOOSE r \in rs : \A o \in rs : ~Before(ks, o, r)
         IN  <<first>> \o SortRows(ks, rs \ {first})

\* The first n elements of sequence s.
Take(s, n) == IF Len(s) <= n THEN s ELSE SubSeq(s, 1, n)

\* SELECT id FROM <Node> WHERE [id IN (candidates) AND] <threshold>
\* ORDER BY <keys> LIMIT <limit>, on node table ns.
SelectIDs(ns, candidate_ids, cs, ks, limit) ==
    LET rows == {Row(ns, id) : id \in
                   {i \in 1..Len(ns) :
                       candidate_ids.has_value => i \in candidate_ids.value}}
        hits == {r \in rows : \A k \in 1..Len(cs) : Holds(cs[k], r)}
        sorted == Take(SortRows(ks, hits), limit)
    IN  [k \in 1..Len(sorted) |-> sorted[k].id]

\* ------------------------------------------------------------ list actions

\* The ids a request with candidate_ids c can return from node table ns.
Eligible(ns, c) == {i \in 1..Len(ns) : c.has_value => i \in c.value}

\* What a write of the rows ids by another caller means to the scan: while
\* the scan holds a token, the rows are no longer as they were at its issue.
NoteWrite(ids) ==
    scan' = IF scan.pc = "request" /\ scan.following
               /\ request.options.has_next_page_token
            THEN [scan EXCEPT !.changed = @ \cup ids, !.written = TRUE]
            ELSE scan

\* No list transaction is open: the transaction of a page of a scan holds
\* from its statement to its return, that of a single request from the call
\* to its return.  Writes after the list operation ended are not followed.
NoListTransaction ==
    \/ scan.pc = "idle"
    \/ scan.pc = "request" /\ scan.following

\* The wall clock advances.
Tick ==
    /\ clock < MaxTime
    /\ clock' = clock + 1
    /\ UNCHANGED <<nodes, request, response, scan>>
    /\ UNCHANGED <<schemavars, execvars, benchvars>>

\* Put* / Create* of a new node: the id is generated, both timestamps are
\* the wall clock at the write.
CreateNode ==
    /\ NoListTransaction
    /\ Len(nodes) < MaxNodes
    /\ nodes' = Append(nodes, [create_time |-> clock,
                               last_update_time |-> clock])
    /\ NoteWrite({})
    /\ UNCHANGED <<clock, request, response>>
    /\ UNCHANGED <<schemavars, execvars, benchvars>>

\* Put* / Update* of node id: last_update_time is refreshed.
UpdateNode(id) ==
    /\ NoListTransaction
    /\ id \in 1..Len(nodes)
    /\ nodes[id].last_update_time < clock
    /\ nodes' = [nodes EXCEPT ![id].last_update_time = clock]
    /\ NoteWrite({id})
    /\ UNCHANGED <<clock, request, response>>
    /\ UNCHANGED <<schemavars, execvars, benchvars>>

\* The page tokens a caller may hand in with a request of its own making:
\* both shapes, with an id_offset and with listed_ids.
Tokens ==
    {[NoToken EXCEPT !.field_offset = f, !.has_id_offset = TRUE,
                     !.id_offset = i] : f \in 1..2, i \in 1..2}
    \cup {[NoToken EXCEPT !.field_offset = f, !.listed_ids = l] :
             f \in 1..2, l \in {<<1>>, <<2, 1>>}}

\* The candidate_ids a caller may hand in: none, the empty collection, some.
Candidates ==
    {[has_value |-> FALSE, value |-> {}], [has_value |-> TRUE, value |-> {}],
     [has_value |-> TRUE, value |-> {1, 2}]}

\* A caller starts a paginated scan: the first page is asked for without a
\* token, and one row more than the page is fetched to see whether a next
\* page exists.  A behaviour follows one list operation, on a table that
\* earlier writes built.
StartScan(field, is_asc, page_size, candidate_ids) ==
    /\ scan = NoScan
    /\ request' = [node |-> "Artifact",
                   options |-> [max_result_size |-> page_size + 1,
                                field |-> field, is_asc |-> is_asc,
                                has_next_page_token |-> FALSE,
                                next_page_token |-> <<>>],
                   candidate_ids |-> candidate_ids]
    /\ response' = NoResponse
    /\ scan' = [NoScan EXCEPT !.pc = "request", !.following = TRUE,
                              !.page_size = page_size]
    /\ UNCHANGED <<nodes, clock>>
    /\ UNCHANGED <<schemavars, execvars, benchvars>>

\* A caller makes one list request with options and a token of its choice,
\* made for these options as the helper's tests make theirs.
DirectRequest(field, is_asc, max_result_size, token, candidate_ids) ==
    /\ scan = NoScan
    /\ LET options == [max_result_size |-> max_result_size,
                       field |-> field, is_asc |-> is_asc]
           issued == [token EXCEPT !.set_options = options]
       IN  /\ request' =
                 [node |-> "Artifact",
                  options |-> [max_result_size |-> max_result_size,
                               field |-> field, is_asc |-> is_asc,
                               has_next_page_token |-> TRUE,
                               next_page_token |->
                                   EncodeListOperationNextPageToken(issued)],
                  candidate_ids |-> candidate_ids]
           /\ scan' = [NoScan EXCEPT !.pc = "request", !.issued = issued]
    /\ response' = NoResponse
    /\ UNCHANGED <<nodes, clock>>
    /\ UNCHANGED <<schemavars, execvars, benchvars>>

\* The node kinds ListNodeIDsUsingOptions is instantiated for.
NodeKinds == {"Artifact", "Execution", "Context"}

\* candidate_ids && candidate_ids->empty(): nothing can be selected.
SkipQuery_never(candidate_ids) == FALSE
SkipQuery(candidate_ids) == candidate_ids.has_value /\ candidate_ids.value = {}

\* The token's set_options must be the options of the request it comes
\* back with: InvalidArgument otherwise.
ValidateListOperationOptionsAreIdentical_but_size(set_options, o) ==
    IF set_options.field = o.field /\ set_options.is_asc = o.is_asc
    THEN OK ELSE "InvalidArgument"
ValidateListOperationOptionsAreIdentical(set_options, o) ==
    IF set_options = SetOptionsOf(o) THEN OK ELSE "InvalidArgument"

\* QueryConfigExecutor::ListNodeIDsUsingOptions(options, candidate_ids,
\* record_set).
ListNodeIDsUsingOptions ==
    /\ scan.pc = "request"
    /\ LET o == request.options
           c == request.candidate_ids
           select == IF request.node \in NodeKinds
                     THEN "SELECT " \o BQ \o "id" \o BQ \o " FROM " \o BQ
                          \o request.node \o BQ \o " WHERE"
                     ELSE ""
           decoded == DecodeListOperationNextPageToken(o.next_page_token)
           threshold ==
               IF ~o.has_next_page_token
               THEN [status |-> OK, conjuncts |-> <<>>, text |-> ""]
               ELSE IF decoded.status # OK
               THEN [status |-> decoded.status, conjuncts |-> <<>>,
                     text |-> ""]
               ELSE IF ValidateListOperationOptionsAreIdentical(
                           decoded.token.set_options, o) # OK
               THEN [status |-> "InvalidArgument", conjuncts |-> <<>>,
                     text |-> ""]
               ELSE [status |-> OK,
                     conjuncts |-> ThresholdClause(o, decoded.token),
                     text |-> AppendOrderingThresholdClause(o, decoded.token)]
           limit == AppendLimitClause(o)
       IN  response' =
             IF SkipQuery(c)
             THEN NoResponse
             ELSE IF request.node \notin NodeKinds
             THEN [NoResponse EXCEPT !.status = "InvalidArgument"]
             ELSE IF threshold.status # OK
             THEN [NoResponse EXCEPT !.status = threshold.status,
                      !.select = select]
             ELSE IF limit.status # OK
             THEN [NoResponse EXCEPT !.status = limit.status,
                      !.select = select, !.where = threshold.text,
                      !.order_by = AppendOrderByClause(o)]
             ELSE [status |-> OK, select |-> select,
                   where |-> threshold.text,
                   order_by |-> AppendOrderByClause(o),
                   limit |-> limit.text, executed |-> TRUE,
                   record_set |-> SelectIDs(nodes, c, threshold.conjuncts,
                                            OrderByKeys(o),
                                            LimitOf(o.max_result_size))]
    /\ scan' = [scan EXCEPT !.pc = "fetched"]
    /\ UNCHANGED <<nodes, clock, request>>
    /\ UNCHANGED <<schemavars, execvars, benchvars>>

\* The ids of page, in order, whose row in ns has value v in column.
RECURSIVE IdsWithValue(_, _, _, _)
IdsWithValue(ns, page, column, v) ==
    IF Len(page) = 0 THEN <<>>
    ELSE (IF Row(ns, page[1])[column] = v THEN <<page[1]>> ELSE <<>>)
         \o IdsWithValue(ns, Tail(page), column, v)

\* The token for the page after page: the ordering value of its last row
\* and, for CREATE_TIME, the id of that row; for LAST_UPDATE_TIME, the ids
\* already listed with that value, those of the token in hand included.
BuildListOperationNextPageToken(o, ns, page) ==
    LET last == Row(ns, page[Len(page)])
        v == last[Column(o.field)]
        previous == DecodeListOperationNextPageToken(o.next_page_token).token
        ListedIds ==
            (IF o.has_next_page_token /\ previous.field_offset = v
             THEN previous.listed_ids ELSE <<>>)
            \o IdsWithValue(ns, page, Column(o.field), v)
        new_token == [NoToken EXCEPT !.set_options = SetOptionsOf(o)]
    IN  CASE o.field = "ID" -> [new_token EXCEPT !.field_offset = v]
          [] o.field = "CREATE_TIME" ->
               [new_token EXCEPT !.field_offset = v, !.has_id_offset = TRUE,
                                 !.id_offset = last.id]
          [] o.field = "LAST_UPDATE_TIME" ->
               [new_token EXCEPT !.field_offset = v,
                                 !.listed_ids = ListedIds]

\* The list call returns a page to the scanning caller: the rows fetched up
\* to the page size, and a token when one more row was fetched.
ReturnPage ==
    /\ scan.pc = "fetched"
    /\ scan.following
    /\ LET o == request.options
           ids == response.record_set
           page == Take(ids, scan.page_size)
           has_next == Len(ids) > scan.page_size
           last == Row(nodes, page[Len(page)])
           token == BuildListOperationNextPageToken(o, nodes, page)
       IN  /\ scan' = [scan EXCEPT
                 !.issued = IF has_next THEN token ELSE @,
                 !.pc = IF has_next THEN "request" ELSE "done",
                 !.page = page,
                 !.has_next = has_next,
                 !.visited = @ \cup {page[k] : k \in 1..Len(page)},
                 !.seen = @ \o page,
                 !.due = scan.owed \ scan.changed,
                 !.changed = {},
                 !.owed = IF has_next
                          THEN {i \in Eligible(nodes, request.candidate_ids) :
                                  Before(OrderByKeys(o), last, Row(nodes, i))}
                          ELSE {}]
           /\ request' = IF has_next
                         THEN [request EXCEPT
                                 !.options.has_next_page_token = TRUE,
                                 !.options.next_page_token =
                                     EncodeListOperationNextPageToken(token)]
                         ELSE request
    /\ UNCHANGED <<nodes, clock, response>>
    /\ UNCHANGED <<schemavars, execvars, benchvars>>

\* The list call returns to a caller that made one request.
EndRequest ==
    /\ scan.pc = "fetched"
    /\ ~scan.following
    /\ scan' = [scan EXCEPT !.pc = "done"]
    /\ UNCHANGED <<nodes, clock, request, response>>
    /\ UNCHANGED <<schemavars, execvars, benchvars>>

\* The list operations on a node table that other callers write to.
ListInit ==
    /\ db = DBAt(LibVersion)
    /\ schemes = 0..LibVersion
    /\ snapshot = [p \in Procs |-> db]
    /\ pc = [p \in Procs |-> "idle"]
    /\ call = [p \in Procs |-> NoCall]
    /\ log = [p \in Procs |-> <<>>]
    /\ prev = [p \in Procs |-> NoPrev]
    /\ ncalls = [p \in Procs |-> 0]
    /\ ListIdle
    /\ ExecIdle
    /\ BenchIdle

\* Put* / Create* of a new node by a caller that read the wall clock at
\* time t, before the database executed its insert and generated the id
\* (callers write concurrently, and a wall clock may be set back).
CreateNodeStamped(t) ==
    /\ NoListTransaction
    /\ Len(nodes) < MaxNodes
    /\ nodes' = Append(nodes, [create_time |-> t, last_update_time |-> t])
    /\ NoteWrite({})
    /\ UNCHANGED <<clock, request, response>>
    /\ UNCHANGED <<schemavars, execvars, benchvars>>

\* A paginated scan of a node table that no one writes to during the scan.
NextScan ==
    \/ scan = NoScan /\ Tick
    \/ scan = NoScan /\ \E t \in 0..clock : CreateNodeStamped(t)
    \/ scan = NoScan /\ \E id \in 1..MaxNodes : UpdateNode(id)
    \/ /\ scan = NoScan
       /\ \E field \in Fields, is_asc \in BOOLEAN,
             page_size \in 1..MaxPageSize, candidate_ids \in Candidates :
             StartScan(field, is_asc, page_size, candidate_ids)
    \/ ListNodeIDsUsingOptions
    \/ ReturnPage

SpecScan == ListInit /\ [][NextScan]_vars

NextList ==
    \/ Tick
    \/ CreateNode
    \/ \E id \in 1..MaxNodes : UpdateNode(id)
    \/ /\ scan = NoScan
       /\ \E field \in Fields, is_asc \in BOOLEAN,
             page_size \in 1..MaxPageSize, candidate_ids \in Candidates :
             StartScan(field, is_asc, page_size, candidate_ids)
    \/ /\ scan = NoScan
       /\ \E field \in Fields, is_asc \in BOOLEAN,
             max_result_size \in 0..MaxPageSize, token \in Tokens :
             DirectRequest(field, is_asc, max_result_size, token,
                           [has_value |-> FALSE, value |-> {}])
    \/ ListNodeIDsUsingOptions
    \/ ReturnPage
    \/ EndRequest

SpecList == ListInit /\ [][NextList]_vars

\* ------------------------------------------------- requests of any page size

\* the largest max_result_size a caller asks for.
MaxLimitInput == 202

\* A caller makes one list request for a first page: options without a
\* token.
FirstPageRequest(node, field, is_asc, max_result_size, candidate_ids) ==
    /\ scan = NoScan
    /\ request' = [node |-> node,
                   options |-> [max_result_size |-> max_result_size,
                                field |-> field, is_asc |-> is_asc,
                                has_next_page_token |-> FALSE,
                                next_page_token |-> <<>>],
                   candidate_ids |-> candidate_ids]
    /\ response' = NoResponse
    /\ scan' = [NoScan EXCEPT !.pc = "request"]
    /\ UNCHANGED <<nodes, clock>>
    /\ UNCHANGED <<schemavars, execvars, benchvars>>

\* First-page requests of every max_result_size from below zero to past the
\* cap, on tables of up to MaxNodes rows.
NextLimit ==
    \/ CreateNode
    \/ /\ scan = NoScan
       /\ \E node \in NodeKinds, field \in Fields, is_asc \in BOOLEAN,
             max_result_size \in (0 - 1)..MaxLimitInput,
             candidate_ids \in Candidates :
             FirstPageRequest(node, field, is_asc, max_result_size,
                              candidate_ids)
    \/ ListNodeIDsUsingOptions
    \/ EndRequest

SpecLimit == ListInit /\ [][NextLimit]_vars

\* ---------------------------------------------- requests with any page token

\* A caller makes one list request with a token that was issued for the
\* options set_options, which need not be the options of this request.
TokenRequest(field, is_asc, max_result_size, token) ==
    /\ scan = NoScan
    /\ request' = [node |-> "Artifact",
                   options |-> [max_result_size |-> max_result_size,
                                field |-> field, is_asc |-> is_asc,
                                has_next_page_token |-> TRUE,
                                next_page_token |->
                                    EncodeListOperationNextPageToken(token)],
                   candidate_ids |-> [has_value |-> FALSE, value |-> {}]]
    /\ response' = NoResponse
    /\ scan' = [NoScan EXCEPT !.pc = "request", !.issued = token]
    /\ UNCHANGED <<nodes, clock>>
    /\ UNCHANGED <<schemavars, execvars, benchvars>>

\* Requests with tokens of both shapes issued for any options, on tables of
\* up to MaxNodes rows.
NextToken ==
    \/ CreateNode
    \/ /\ scan = NoScan
       /\ \E field \in Fields, is_asc \in BOOLEAN,
             max_result_size \in 1..MaxPageSize, cursor \in Tokens,
             set_field \in Fields, set_is_asc \in BOOLEAN,
             set_max_result_size \in 1..MaxPageSize :
             TokenRequest(field, is_asc, max_result_size,
                          [cursor EXCEPT !.set_options =
                              [max_result_size |-> set_max_result_size,
                               field |-> set_field, is_asc |-> set_is_asc]])
    \/ ListNodeIDsUsingOptions
    \/ EndRequest

SpecToken == ListInit /\ [][NextToken]_vars

\* --------------------------------------------------------------- properties

\* What a probe of database d reports: the status and, when OK, the version.
SchemaVersionOf(d) ==
    IF "MLMDEnv" \in d.tables
    THEN IF Len(d.env) = 0 THEN [status |-> "Aborted", version |-> 0]
         ELSE IF Len(d.env) > 1 THEN [status |-> "DataLoss", version |-> 0]
         ELSE [status |-> OK, version |-> d.env[1]]
    ELSE IF CheckTablesIn_V0_13_2(d)
         THEN [status |-> OK, version |-> 0]
         ELSE [status |-> "NotFound", version |-> 0]

\* The database of caller p's call is at version v when the call begins.
StartsAt(p, v) == SchemaVersionOf(snapshot[p]) = [status |-> OK, version |-> v]

Returned(p) == pc[p] \in {"ret", "done"}

\* The statements of a log, in the order they were sent.
Stmts(l) == [k \in 1..Len(l) |-> l[k].stmt]

IsPrefix(a, b) == Len(a) <= Len(b) /\ \A k \in 1..Len(a) : a[k] = b[k]

\* Every statement of the log but the last one succeeded.
OnlyLastMayFail(l) == \A k \in 1..Len(l) : k < Len(l) => l[k].ok

\* The statements an upgrade from version from to the library version sends:
\* for each v in from+1..LibVersion the upgrade queries of v, then the update
\* of the schema version to v.
ExpectedUpgrade(from) ==
    [k \in 1..((LibVersion - from) * (NumQueries + 1)) |->
        LET v == from + 1 + ((k - 1) \div (NumQueries + 1))
            i == ((k - 1) % (NumQueries + 1)) + 1
        IN  IF i <= NumQueries THEN upgrade_queries(v)[i]
            ELSE UpdateSchemaVersionStmt(v)]

\* C1: an upgrade with migration enabled of a database at version from <
\* LibVersion sends, at every moment, a prefix of: for v = from+1, ...,
\* LibVersion in increasing order, the upgrade queries of migration_schemes[v]
\* in their order, then the update of the schema version to v; a statement is
\* sent only when all before it succeeded; when the upgrade returns OK all of
\* them were sent and the recorded schema version is the library version.
C1_UpgradeInOrder ==
    \A p \in Procs : \A from \in 0..(LibVersion - 1) :
        (call[p].op = "Upgrade" /\ call[p].enable_migration /\ StartsAt(p, from))
        => /\ IsPrefix(Stmts(log[p]), ExpectedUpgrade(from))
           /\ OnlyLastMayFail(log[p])
           /\ (Returned(p) /\ call[p].status = OK)
              => /\ Stmts(log[p]) = ExpectedUpgrade(from)
                 /\ SchemaVersionOf(db) = [status |-> OK, version |-> LibVersion]

\* An upgrade from version 0 returned OK after all its steps.
C1_Witness ==
    \E p \in Procs :
        /\ call[p].op = "Upgrade" /\ pc[p] = "ret" /\ call[p].status = OK
        /\ StartsAt(p, 0)
        /\ Len(log[p]) = LibVersion * (NumQueries + 1)

\* C2: when a statement of an upgrade or a downgrade fails, the call returns
\* an error and the database is, after the call, what it was before it.
C2_MigrationAtomic ==
    \A p \in Procs :
        (pc[p] = "done" /\ call[p].op \in {"Upgrade", "Downgrade"}
         /\ call[p].faulted)
        => /\ call[p].status # OK
           /\ db = snapshot[p]

\* An upgrade failed after it had recorded an intermediate version.
C2_Witness ==
    \E p \in Procs :
        /\ pc[p] = "done" /\ call[p].op = "Upgrade" /\ call[p].faulted
        /\ Len(log[p]) > NumQueries + 1
        /\ db = snapshot[p]

\* The statements a downgrade from version from to version t sends: for each
\* w = from-1, ..., t the downgrade queries of w, then the update of the
\* schema version to w unless w = 0.
RECURSIVE ExpectedDowngrade(_, _)
ExpectedDowngrade(from, t) ==
    IF from <= t THEN <<>>
    ELSE downgrade_queries(from - 1)
         \o (IF from - 1 > 0 THEN <<UpdateSchemaVersionStmt(from - 1)>>
             ELSE <<>>)
         \o ExpectedDowngrade(from - 1, t)

\* C3: a downgrade to t of a database at version from > t (from at most the
\* library version) sends, at every moment, a prefix of: for w = from-1, ...,
\* t in decreasing order, the downgrade queries of migration_schemes[w] in
\* their order, then the update of the schema version to w unless w = 0;
\* when it returns OK all of them were sent, and none of a step below t.
C3_DowngradeInOrder ==
    \A p \in Procs : \A from \in 1..LibVersion : \A t \in 0..(from - 1) :
        (call[p].op = "Downgrade" /\ call[p].to_schema_version = t
         /\ StartsAt(p, from))
        => /\ IsPrefix(Stmts(log[p]), ExpectedDowngrade(from, t))
           /\ OnlyLastMayFail(log[p])
           /\ (Returned(p) /\ call[p].status = OK)
              => /\ Stmts(log[p]) = ExpectedDowngrade(from, t)
                 /\ SchemaVersionOf(db) = [status |-> OK, version |-> t]

\* A downgrade from the library version to version 0 returned OK.
C3_Witness ==
    \E p \in Procs :
        /\ call[p].op = "Downgrade" /\ pc[p] = "ret" /\ call[p].status = OK
        /\ call[p].to_schema_version = 0
        /\ StartsAt(p, LibVersion)
        /\ Len(log[p]) = LibVersion * (NumQueries + 1) - 1

\* Caller p has completed an upgrade (migration enabled) of a database
\* holding the schema of version t and then a downgrade to t, with a complete
\* catalog and a driver that executed every statement.
RoundTrip(p, t) ==
    /\ pc[p] = "done" /\ call[p].op = "Downgrade"
    /\ call[p].to_schema_version = t /\ ~call[p].faulted
    /\ prev[p].op = "Upgrade" /\ prev[p].call.enable_migration
    /\ ~prev[p].call.faulted /\ prev[p].before = DBAt(t)
    /\ schemes = 0..LibVersion

\* C4 as stated: for every t in 0..LibVersion, upgrade then downgrade to t
\* both return OK, leave the schema as it was, and MLMDEnv.schema_version
\* equals t.
C4_RoundTripRecordsTarget ==
    \A p \in Procs : \A t \in 0..LibVersion :
        RoundTrip(p, t)
        => /\ prev[p].call.status = OK
           /\ call[p].status = OK
           /\ db.tables = prev[p].before.tables
           /\ db.features = prev[p].before.features
           /\ "MLMDEnv" \in db.tables /\ db.env = <<t>>

\* C4 amended: for every t in 0..LibVersion, upgrade then downgrade to t both
\* return OK and leave the database as it was; MLMDEnv.schema_version equals
\* t when t > 0, and for t = 0 MLMDEnv does not exist (no version is
\* recorded) and the probe reports version 0.
C4_UpgradeDowngradeRoundTrip ==
    \A p \in Procs : \A t \in 0..LibVersion :
        RoundTrip(p, t)
        => /\ prev[p].call.status = OK
           /\ SchemaVersionOf(prev[p].after) =
                  [status |-> OK, version |-> LibVersion]
           /\ call[p].status = OK
           /\ db = prev[p].before
           /\ t > 0 => ("MLMDEnv" \in db.tables /\ db.env = <<t>>)
           /\ t = 0 => /\ "MLMDEnv" \notin db.tables
                       /\ SchemaVersionOf(db) = [status |-> OK, version |-> 0]

\* An upgrade from version 0 was followed by a downgrade back to version 0.
C4_Witness ==
    \E p \in Procs :
        /\ pc[p] = "done" /\ call[p].op = "Downgrade"
        /\ call[p].to_schema_version = 0 /\ call[p].status = OK
        /\ prev[p].op = "Upgrade" /\ prev[p].call.status = OK
        /\ prev[p].before = DBAt(0) /\ prev[p].after = DBAt(LibVersion)
        /\ Len(log[p]) > 0

\* The database of caller p's call is newer than the library.
StartsNewer(p) ==
    /\ SchemaVersionOf(snapshot[p]).status = OK
    /\ SchemaVersionOf(snapshot[p]).version > LibVersion

\* C5: on a database whose version is greater than the library version, an
\* upgrade and a downgrade to an in-range target send no migration query and
\* no schema-version update, and return FailedPrecondition.
C5_NewerDatabaseRefused ==
    \A p \in Procs :
        (/\ \/ call[p].op = "Upgrade"
            \/ /\ call[p].op = "Downgrade"
               /\ call[p].to_schema_version \in 0..LibVersion
         /\ StartsNewer(p))
        => /\ log[p] = <<>>
           /\ db = snapshot[p]
           /\ Returned(p) => call[p].status = "FailedPrecondition"

\* Both an upgrade and then a downgrade were refused on a newer database.
C5_Witness ==
    \E p \in Procs :
        /\ pc[p] = "done" /\ StartsNewer(p)
        /\ call[p].op = "Downgrade" /\ call[p].to_schema_version \in 0..LibVersion
        /\ call[p].status = "FailedPrecondition"
        /\ prev[p].op = "Upgrade" /\ prev[p].call.status = "FailedPrecondition"

\* C6: an upgrade with migration disabled of a database whose version is
\* lower than the library version sends no statement, leaves the database
\* unchanged and returns FailedPrecondition.
C6_DisabledMigrationRefused ==
    \A p \in Procs : \A from \in 0..(LibVersion - 1) :
        (call[p].op = "Upgrade" /\ ~call[p].enable_migration
         /\ StartsAt(p, from))
        => /\ log[p] = <<>>
           /\ db = snapshot[p]
           /\ Returned(p) => call[p].status = "FailedPrecondition"

\* An upgrade with migration disabled returned on a version-1 database.
C6_Witness ==
    \E p \in Procs :
        /\ pc[p] = "done" /\ call[p].op = "Upgrade"
        /\ ~call[p].enable_migration /\ StartsAt(p, 1)
        /\ call[p].status = "FailedPrecondition"

\* The version of the migration scheme a logged statement belongs to.
SchemeOf(stmt) == IF stmt.kind = "downgrade" THEN stmt.v - 1 ELSE stmt.v

\* C7: when the catalog lacks the scheme of a version m that an upgrade
\* (resp. a downgrade) has as a destination, no statement of version m or of
\* a later step is sent, and the call returns Internal unless a statement of
\* an earlier step failed.
C7_MissingSchemeIsInternal ==
    \A p \in Procs : \A from \in 0..LibVersion :
        /\ (call[p].op = "Upgrade" /\ call[p].enable_migration
            /\ StartsAt(p, from))
           => \A m \in ((from + 1)..LibVersion) \ schemes :
                 /\ \A k \in 1..Len(log[p]) : SchemeOf(log[p][k].stmt) < m
                 /\ (Returned(p) /\ ~call[p].faulted)
                    => call[p].status = "Internal"
        /\ (call[p].op = "Downgrade" /\ StartsAt(p, from)
            /\ call[p].to_schema_version \in 0..LibVersion)
           => \A m \in (call[p].to_schema_version..(from - 1)) \ schemes :
                 /\ \A k \in 1..Len(log[p]) : SchemeOf(log[p][k].stmt) > m
                 /\ (Returned(p) /\ ~call[p].faulted)
                    => call[p].status = "Internal"

\* An upgrade from version 0 ran the step to version 1 and stopped with
\* Internal at the missing scheme of version 2.
C7_Witness ==
    \E p \in Procs :
        /\ pc[p] = "ret" /\ call[p].op = "Upgrade" /\ StartsAt(p, 0)
        /\ 2 \notin schemes
        /\ call[p].status = "Internal" /\ ~call[p].faulted
        /\ Len(log[p]) = NumQueries + 1

\* C8: a downgrade to a target below 0 or above the library version returns
\* InvalidArgument on every database, sends no statement and leaves the
\* database unchanged.
C8_TargetOutOfRangeRejected ==
    \A p \in Procs :
        (call[p].op = "Downgrade"
         /\ (call[p].to_schema_version < 0
             \/ call[p].to_schema_version > LibVersion))
        => /\ log[p] = <<>>
           /\ db = snapshot[p]
           /\ pc[p] \in {"down_arg", "ret", "done"}
           /\ Returned(p) => call[p].status = "InvalidArgument"

\* A downgrade above the library version was rejected on a database that is
\* itself newer than the library.
C8_Witness ==
    \E p \in Procs :
        /\ pc[p] = "done" /\ call[p].op = "Downgrade"
        /\ call[p].to_schema_version = LibVersion + 1
        /\ StartsNewer(p)
        /\ call[p].status = "InvalidArgument"

\* C9 as stated: a downgrade to an out-of-range target is reported as
\* FailedPrecondition.
C9_OutOfRangeIsFailedPrecondition ==
    \A p \in Procs :
        (call[p].op = "Downgrade" /\ Returned(p)
         /\ (call[p].to_schema_version < 0
             \/ call[p].to_schema_version > LibVersion))
        => call[p].status = "FailedPrecondition"

\* C9 amended: a downgrade to an out-of-range target is reported with the
\* InvalidArgument error kind.
C9_OutOfRangeIsInvalidArgument ==
    \A p \in Procs :
        (call[p].op = "Downgrade" /\ Returned(p)
         /\ (call[p].to_schema_version < 0
             \/ call[p].to_schema_version > LibVersion))
        => call[p].status = "InvalidArgument"

\* A downgrade to version -1 returned.
C9_Witness ==
    \E p \in Procs :
        /\ pc[p] = "ret" /\ call[p].op = "Downgrade"
        /\ call[p].to_schema_version = 0 - 1
        /\ call[p].status = "InvalidArgument"

\* C10: GetSchemaVersion never modifies the database and returns: Aborted
\* when MLMDEnv is readable with no row, DataLoss with more than one row, OK
\* and the row's value with one row; when MLMDEnv is not readable, OK and
\* version 0 if the v0.13.2 tables check passes and NotFound otherwise.
C10_GetSchemaVersionClassifies ==
    \A p \in Procs :
        call[p].op = "GetSchemaVersion"
        => /\ db = snapshot[p]
           /\ log[p] = <<>>
           /\ Returned(p) =>
                LET d == snapshot[p] IN
                /\ call[p].status =
                     (IF "MLMDEnv" \in d.tables
                      THEN IF Len(d.env) = 0 THEN "Aborted"
                           ELSE IF Len(d.env) > 1 THEN "DataLoss"
                           ELSE OK
                      ELSE IF CheckTablesIn_V0_13_2(d) THEN OK
                           ELSE "NotFound")
                /\ ("MLMDEnv" \in d.tables /\ Len(d.env) = 1)
                   => call[p].db_version = d.env[1]
                /\ ("MLMDEnv" \notin d.tables /\ CheckTablesIn_V0_13_2(d))
                   => call[p].db_version = 0

\* A probe of a database whose MLMDEnv holds two rows returned DataLoss.
C10_Witness ==
    \E p \in Procs :
        /\ pc[p] = "done" /\ call[p].op = "GetSchemaVersion"
        /\ Len(snapshot[p].env) = 2
        /\ call[p].status = "DataLoss"

\* ---------------------------------------------- properties of initialization

\* Caller p runs InitMetadataSourceIfNotExists without a pinned version.
Unpinned(p) ==
    call[p].op = "InitIfNotExists" /\ ~call[p].query_schema_version.has_value

\* Caller p has made all the table checks and decided on them.
Decided(p) ==
    /\ call[p].checks = Len(CheckOrder)
    /\ pc[p] # "init_decide"

\* The number of table checks of caller p that passed.
Passed(p) == call[p].checks - call[p].missing

\* The statements by which InitMetadataSource creates the schema.
CreationKinds == {"create_table", "create_index", "insert_schema_version"}

\* The call of caller p sent no creating statement.
NoCreation(p) ==
    \A k \in 1..Len(log[p]) : log[p][k].stmt.kind \notin CreationKinds

\* The statements of a complete InitMetadataSource, in order.
InitStatements ==
    [k \in 1..Len(CreateOrder) |-> CreateTableStmt(k)]
    \o [j \in 1..NumIndices |-> CreateIndexStmt(j)]
    \o <<InsertSchemaVersionStmt(LibVersion)>>

\* The creating statements of a log, in the order they were sent.
CreationOf(l) == SelectSeq([k \in 1..Len(l) |-> l[k].stmt],
                           LAMBDA q : q.kind \in CreationKinds)

\* C11: without a pinned version and once the upgrade step succeeded,
\* InitMetadataSourceIfNotExists checks the 15 tables in the database as it
\* is; when all checks pass it returns OK and creates nothing; when 1 to 14
\* pass it returns Aborted and creates nothing; when none passes it runs
\* InitMetadataSource, which (no statement failing) sends every table
\* creation, every index creation and the insert of the library version,
\* and leaves all tables, all indices and the library version in MLMDEnv.
C11_InitThreeOutcomes ==
    \A p \in Callers :
        Unpinned(p) =>
        /\ pc[p] = "init_decide" =>
             Passed(p) = Cardinality(TableNames \cap db.tables)
        /\ (Decided(p) /\ Passed(p) = Len(CheckOrder)) =>
             Returned(p) /\ call[p].status = OK /\ NoCreation(p)
        /\ (Decided(p) /\ Passed(p) \in 1..(Len(CheckOrder) - 1)) =>
             Returned(p) /\ call[p].status = "Aborted" /\ NoCreation(p)
        /\ (Decided(p) /\ Passed(p) = 0) =>
             /\ call[p].stage \in {"create", "reread"}
             /\ (Returned(p) /\ ~call[p].faulted) =>
                  /\ call[p].status = OK
                  /\ CreationOf(log[p]) = InitStatements
                  /\ db.tables = TableNames
                  /\ db.indices = AllIndices
                  /\ db.env = <<LibVersion>>

\* An initialization of an empty database found no table and has created
\* the whole schema of the library version.
C11_Witness ==
    \E p \in Callers :
        /\ Unpinned(p) /\ pc[p] = "done" /\ Passed(p) = 0
        /\ call[p].status = OK /\ snapshot[p] = EmptyDB
        /\ db = DBAt(LibVersion)

\* C12: InitMetadataSourceIfNotExists called twice in sequence on an
\* initially empty database (no pinned version, no statement failing)
\* returns OK both times; the second call sends no statement at all, so it
\* creates no table or index and inserts or updates no version row, and the
\* database stays as the first call left it.
C12_InitIdempotent ==
    \A p \in Callers :
        (/\ Unpinned(p) /\ Returned(p)
         /\ prev[p].op = "InitIfNotExists"
         /\ ~prev[p].call.query_schema_version.has_value
         /\ prev[p].before = EmptyDB
         /\ ~prev[p].call.faulted)
        => /\ prev[p].call.status = OK
           /\ call[p].status = OK
           /\ log[p] = <<>>
           /\ db.tables = prev[p].after.tables
           /\ db.indices = prev[p].after.indices
           /\ db.env = prev[p].after.env

\* The second of two initializations of an empty database has returned; the
\* first one created the schema.
C12_Witness ==
    \E p \in Callers :
        /\ Unpinned(p) /\ pc[p] = "done"
        /\ prev[p].op = "InitIfNotExists" /\ prev[p].before = EmptyDB
        /\ ~prev[p].call.faulted
        /\ prev[p].call.missing = Len(CheckOrder)
        /\ call[p].checks = Len(CheckOrder) /\ call[p].missing = 0
        /\ db.tables = TableNames

\* Both callers of the race run InitMetadataSourceIfNotExists.
BothInitIfNotExists == \A p \in Procs : Unpinned(p)

InsertFailed(p) ==
    /\ Len(log[p]) > 0
    /\ log[p][Len(log[p])].stmt.kind = "insert_schema_version"
    /\ ~log[p][Len(log[p])].ok

\* C14: in InitMetadataSource, when the insert of the library version fails
\* the version is read again and decides the status, the insert's own error
\* being dropped: OK when the recorded version equals the library version,
\* DataLoss when it differs, and the error of the re-read when it fails.
C14_FailedInsertRereads ==
    \A p \in Callers :
        InsertFailed(p) =>
        /\ call[p].stage = "reread"
        /\ pc[p] \in {"gsv_env", "gsv_legacy", "probed", "ret", "done"}
        /\ pc[p] = "ret" =>
             call[p].status =
                 (IF SchemaVersionOf(db).status # OK
                  THEN SchemaVersionOf(db).status
                  ELSE IF SchemaVersionOf(db).version = LibVersion THEN OK
                  ELSE "DataLoss")

\* The insert failed on a database that records another version than the
\* library's, and the call returned DataLoss.
C14_Witness ==
    \E p \in Callers :
        /\ InsertFailed(p) /\ pc[p] = "ret"
        /\ call[p].status = "DataLoss"
        /\ Len(db.env) = 1 /\ db.env[1] # LibVersion

\* C15: once MLMDEnv holds a version row it holds exactly one, in every
\* state reached by InitMetadataSource, InitMetadataSourceIfNotExists,
\* upgrades and downgrades to a version above 0.
C15_SingleVersionRow ==
    ("MLMDEnv" \in db.tables /\ Len(db.env) > 0) => Len(db.env) = 1

\* C16: after InitMetadataSource returned OK on an empty database, the next
\* GetSchemaVersion returns OK and reports the library version.
C16_LibraryVersionAfterInit ==
    \A p \in Callers :
        (/\ call[p].op = "GetSchemaVersion" /\ Returned(p)
         /\ prev[p].op = "Init" /\ prev[p].before = EmptyDB
         /\ prev[p].call.status = OK)
        => /\ call[p].status = OK
           /\ call[p].db_version = LibVersion

\* A GetSchemaVersion that followed a successful InitMetadataSource of an
\* empty database has returned.
C16_Witness ==
    \E p \in Callers :
        /\ call[p].op = "GetSchemaVersion" /\ pc[p] = "done"
        /\ prev[p].op = "Init" /\ prev[p].before = EmptyDB
        /\ prev[p].call.status = OK
        /\ snapshot[p].tables = TableNames
        /\ call[p].db_version = LibVersion

\* Caller p runs InitMetadataSourceIfNotExists with a pinned version.
Pinned(p) ==
    call[p].op = "InitIfNotExists" /\ call[p].query_schema_version.has_value

\* C17: with a pinned query schema version, InitMetadataSourceIfNotExists
\* only probes the schema version: it sends no upgrade query, no table or
\* index creation and no version insert or update, leaves the database as it
\* is, and returns OK exactly when the database reports the pinned version.
C17_PinnedOnlyChecksVersion ==
    \A p \in Callers :
        Pinned(p) =>
        /\ log[p] = <<>>
        /\ db = snapshot[p]
        /\ call[p].stage = "pinned"
        /\ pc[p] \in {"gsv_env", "gsv_legacy", "probed", "ret", "done"}
        /\ Returned(p) =>
             (call[p].status = OK
              <=> SchemaVersionOf(snapshot[p]) =
                    [status |-> OK,
                     version |-> call[p].query_schema_version.value])

\* A call pinned to the library version, with migration enabled, was refused
\* on a database one version older, which it left as it was.
C17_Witness ==
    \E p \in Callers :
        /\ Pinned(p) /\ pc[p] = "done"
        /\ call[p].enable_migration
        /\ call[p].query_schema_version.value = LibVersion
        /\ snapshot[p] = DBAt(LibVersion - 1)
        /\ call[p].status = "FailedPrecondition"
        /\ db = DBAt(LibVersion - 1)

\* ------------------------------------------------ paginated scans (4.4, 5)

Built ==
    /\ scan.pc \in {"fetched", "done"}
    /\ ~(request.candidate_ids.has_value /\ request.candidate_ids.value = {})

\* The threshold clause 4.4 prescribes for field, direction and token, case
\* by case.
PrescribedThreshold(o, t) ==
    LET F == IF o.field = "CREATE_TIME" THEN "'create_time_since_epoch'"
             ELSE "'last_update_time_since_epoch'"
        off == ToString(t.field_offset)
    IN  CASE o.field = "ID" /\ ~o.is_asc -> " 'id' < " \o off \o " "
          [] o.field = "ID" /\ o.is_asc -> " 'id' > " \o off \o " "
          [] o.field # "ID" /\ t.has_id_offset /\ ~o.is_asc ->
               " " \o F \o " <= " \o off \o " AND 'id' < "
                   \o ToString(t.id_offset) \o " "
          [] o.field # "ID" /\ t.has_id_offset /\ o.is_asc ->
               " " \o F \o " >= " \o off \o " AND 'id' > "
                   \o ToString(t.id_offset) \o " "
          [] o.field # "ID" /\ ~t.has_id_offset /\ ~o.is_asc ->
               " " \o F \o " <= " \o off \o " AND 'id' NOT IN ("
                   \o StrJoin(t.listed_ids) \o ") "
          [] o.field # "ID" /\ ~t.has_id_offset /\ o.is_asc ->
               " " \o F \o " >= " \o off \o " AND 'id' NOT IN ("
                   \o StrJoin(t.listed_ids) \o ") "

\* The options and tokens of the helper's tests.
TestOptions(field, is_asc) ==
    [max_result_size |-> 1, field |-> field, is_asc |-> is_asc,
     has_next_page_token |-> TRUE, next_page_token |-> <<>>]
BasicListOperationNextPageToken ==
    [NoToken EXCEPT !.field_offset = 56894, !.has_id_offset = TRUE,
                    !.id_offset = 100]

\* C19: for every field, direction and token shape the threshold clause of
\* a request with a token is the prescribed one: id < / > field_offset for
\* ID; F <= / >= field_offset AND id < / > id_offset for a time field with
\* an id_offset; F <= / >= field_offset AND id NOT IN (listed_ids) for a
\* time field with listed_ids.  The clauses the tests expect are among them.
C19_ThresholdClauseAsPrescribed ==
    /\ (Built /\ request.options.has_next_page_token) =>
          response.where = PrescribedThreshold(request.options, scan.issued)
    /\ AppendOrderingThresholdClause(TestOptions("CREATE_TIME", FALSE),
                                     BasicListOperationNextPageToken)
          = " 'create_time_since_epoch' <= 56894 AND 'id' < 100 "
    /\ AppendOrderingThresholdClause(TestOptions("CREATE_TIME", TRUE),
                                     BasicListOperationNextPageToken)
          = " 'create_time_since_epoch' >= 56894 AND 'id' > 100 "
    /\ AppendOrderingThresholdClause(TestOptions("LAST_UPDATE_TIME", FALSE),
          [NoToken EXCEPT !.field_offset = 56894, !.listed_ids = <<6, 5>>])
          = " 'last_update_time_since_epoch' <= 56894 AND 'id' NOT IN (6,5) "
    /\ AppendOrderingThresholdClause(TestOptions("ID", FALSE),
          [NoToken EXCEPT !.field_offset = 100])
          = " 'id' < 100 "

\* A request ordered by LAST_UPDATE_TIME, ascending, with a token of two
\* listed ids, got its clause.
C19_Witness ==
    /\ Built
    /\ request.options.field = "LAST_UPDATE_TIME"
    /\ request.options.is_asc
    /\ request.options.has_next_page_token
    /\ scan.issued.listed_ids = <<2, 1>>
    /\ response.where =
          " 'last_update_time_since_epoch' >= 1 AND 'id' NOT IN (2,1) "

\* The order-by clause 4.4 prescribes, case by case.
PrescribedOrderBy(o) ==
    LET dir == IF o.is_asc THEN "ASC" ELSE "DESC" IN
    CASE o.field = "ID" -> " ORDER BY 'id' " \o dir \o " "
      [] o.field = "CREATE_TIME" ->
           " ORDER BY 'create_time_since_epoch' " \o dir \o ", 'id' "
               \o dir \o " "
      [] o.field = "LAST_UPDATE_TIME" ->
           " ORDER BY 'last_update_time_since_epoch' " \o dir \o ", 'id' "
               \o dir \o " "

\* Row a is ahead of row b in the requested order: by the field in the
\* requested direction, by id in that direction among equals.
Ahead(o, a, b) ==
    LET fa == a[Column(o.field)]
        fb == b[Column(o.field)]
    IN  IF o.is_asc
        THEN fa < fb \/ (fa = fb /\ a.id < b.id)
        ELSE fa > fb \/ (fa = fb /\ a.id > b.id)

\* C20: for every field and direction the order-by clause names the field
\* column in the requested direction and then id in the same direction, and
\* id alone for field ID; the rows come back in that order, and the order
\* is total: of two distinct rows one comes before the other.
C20_OrderByFieldThenId ==
    /\ Built /\ response.status = OK =>
          /\ response.order_by = PrescribedOrderBy(request.options)
          /\ \A j, k \in 1..Len(response.record_set) :
                j < k => Ahead(request.options,
                               Row(nodes, response.record_set[j]),
                               Row(nodes, response.record_set[k]))
          /\ \A i, j \in 1..Len(nodes) :
                i # j => \/ Before(OrderByKeys(request.options),
                                   Row(nodes, i), Row(nodes, j))
                         \/ Before(OrderByKeys(request.options),
                                   Row(nodes, j), Row(nodes, i))
    /\ AppendOrderByClause(TestOptions("CREATE_TIME", FALSE))
          = " ORDER BY 'create_time_since_epoch' DESC, 'id' DESC "
    /\ AppendOrderByClause(TestOptions("CREATE_TIME", TRUE))
          = " ORDER BY 'create_time_since_epoch' ASC, 'id' ASC "
    /\ AppendOrderByClause(TestOptions("ID", FALSE)) = " ORDER BY 'id' DESC "

\* A statement ordered by LAST_UPDATE_TIME, descending, returned two rows
\* that share their last_update_time, the larger id first, after a row
\* with a later time and a smaller id.
C20_Witness ==
    /\ scan.pc = "fetched"
    /\ response.status = OK
    /\ request.options.field = "LAST_UPDATE_TIME"
    /\ ~request.options.is_asc
    /\ response.record_set = <<1, 3, 2>>
    /\ nodes[1].last_update_time > nodes[3].last_update_time
    /\ nodes[3].last_update_time = nodes[2].last_update_time

\* ------------------------------------------------ the limit clause (4.4, 8)

\* The statement of the request in hand was built with a LIMIT clause.
Limited == Built /\ response.status = OK

\* The original statement of C21: for every max_result_size k > 0 the
\* clause is LIMIT min(k, 100) + 1.
C21_LimitIsCappedSizePlusOne ==
    Limited =>
       LET k == request.options.max_result_size IN
       response.limit =
          " LIMIT " \o ToString((IF k < 100 THEN k ELSE 100) + 1) \o " "

\* C21, amended: for every max_result_size k > 0 the clause is
\* LIMIT min(k, 101): the size asked for, capped at one row more than the
\* ceiling of 100; no row is added to a size below the cap.
C21_LimitIsMinOfSizeAndCap ==
    Limited =>
       LET k == request.options.max_result_size IN
       /\ k > 0
       /\ response.limit =
             " LIMIT " \o ToString(IF k < 100 + 1 THEN k ELSE 100 + 1) \o " "

\* A request for 150 rows got LIMIT 101, and it reached the driver.
C21_Witness ==
    /\ Limited
    /\ request.options.max_result_size = 150
    /\ response.limit = " LIMIT 101 "
    /\ response.executed

\* The number n of a clause " LIMIT n ", among the numbers up to bound.
EmittedLimit(text, bound) ==
    {n \in 0..bound : text = " LIMIT " \o ToString(n) \o " "}

\* C22: max_result_size k with 1 <= k <= 100 gives LIMIT k (1 gives
\* " LIMIT 1 "), every k above 100 gives LIMIT 101 (200 gives
\* " LIMIT 101 "), and no emitted limit exceeds 101.
C22_LimitClauseValues ==
    Limited =>
       LET k == request.options.max_result_size IN
       /\ (1 <= k /\ k <= 100) =>
             response.limit = " LIMIT " \o ToString(k) \o " "
       /\ k = 1 => response.limit = " LIMIT 1 "
       /\ k > 100 => response.limit = " LIMIT 101 "
       /\ k = 200 => response.limit = " LIMIT 101 "
       /\ EmittedLimit(response.limit, 101) # {}
       /\ Len(response.record_set) <= 101

\* A request for 200 rows of a table of several, ordered by id descending,
\* got ORDER BY id DESC and LIMIT 101.
C22_Witness ==
    /\ Limited
    /\ request.options.max_result_size = 200
    /\ request.options.field = "ID"
    /\ ~request.options.is_asc
    /\ response.order_by = " ORDER BY 'id' DESC "
    /\ response.limit = " LIMIT 101 "
    /\ Len(nodes) > 1

C24_TokenRoundTrips ==
    /\ request.options.has_next_page_token =>
          DecodeListOperationNextPageToken(request.options.next_page_token)
             = [status |-> OK, token |-> scan.issued]
    /\ LET t == [BasicListOperationNextPageToken EXCEPT
                   !.set_options = SetOptionsOf(TestOptions("CREATE_TIME",
                                                            FALSE))]
       IN  DecodeListOperationNextPageToken(
               EncodeListOperationNextPageToken(t)).token = t
    /\ LET t == [NoToken EXCEPT
                   !.field_offset = 56894, !.listed_ids = <<6, 300>>,
                   !.set_options = [max_result_size |-> 200,
                                    field |-> "LAST_UPDATE_TIME",
                                    is_asc |-> TRUE]]
       IN  DecodeListOperationNextPageToken(
               EncodeListOperationNextPageToken(t)).token = t

\* A request came with the 22 characters that encode a token of two listed
\* ids issued for LAST_UPDATE_TIME, descending, and the statement was built
\* from the token they decode to.
C24_Witness ==
    /\ scan.pc = "fetched"
    /\ response.status = OK
    /\ scan.issued.listed_ids = <<2, 1>>
    /\ scan.issued.set_options.field = "LAST_UPDATE_TIME"
    /\ ~scan.issued.set_options.is_asc
    /\ Len(request.options.next_page_token) = 22
    /\ DecodeListOperationNextPageToken(request.options.next_page_token).token
          = scan.issued

Answered == scan.pc \in {"fetched", "done"}

\* C26: with candidate ids that are present but empty,
\* ListNodeIDsUsingOptions returns OK and an empty record set and sends no
\* statement to the driver, for each node kind and whatever the options,
\* a max_result_size that is not positive included.
C26_EmptyCandidatesSkipQuery ==
    (Answered /\ request.candidate_ids.has_value
              /\ request.candidate_ids.value = {}) =>
       /\ response.status = OK
       /\ response.record_set = <<>>
       /\ ~response.executed
       /\ response.select = ""

\* A request for Context ids with empty candidate ids and max_result_size 0
\* on a table with rows returned OK.
C26_Witness ==
    /\ Answered
    /\ request.node = "Context"
    /\ request.candidate_ids = [has_value |-> TRUE, value |-> {}]
    /\ request.options.max_result_size = 0
    /\ Len(nodes) > 0
    /\ response.status = OK
    /\ ~response.executed

\* ------------------------------------------------ the store facade (4.6, 5)

\* The facade starts another attempt of caller 1's call.
Retried == call'[1].attempts # call[1].attempts /\ pc[1] = "ret"

\* C27: a public call runs one transaction per attempt: an attempt that
\* ends Aborted is rolled back and retried, at most MaxRetries times; every
\* other status is returned after that attempt, unchanged, the transaction
\* committed when it is OK and rolled back otherwise; and the call
\* terminates.
C27_RetryOnlyAbortedAndTerminate ==
    /\ [](call[1].attempts <= MaxRetries)
    /\ [][Retried =>
            /\ call[1].status = "Aborted"
            /\ call'[1].attempts = call[1].attempts + 1
            /\ db' = snapshot[1]
            /\ log'[1] = <<>>]_vars
    /\ [][(pc[1] = "ret" /\ call[1].status # "Aborted") =>
            /\ pc'[1] = "done"
            /\ call'[1] = call[1]
            /\ db' = IF call[1].status = OK THEN db ELSE snapshot[1]]_vars
    /\ (pc[1] \notin {"idle", "done"}) ~> (pc[1] = "done")

\* An upgrade whose first attempt ended Aborted succeeded on a later one,
\* and its migration is committed.
C27_Witness ==
    /\ pc[1] = "done"
    /\ call[1].op = "Upgrade"
    /\ call[1].attempts > 0
    /\ call[1].status = OK
    /\ db # snapshot[1]
    /\ SchemaVersionOf(db) = [status |-> OK, version |-> LibVersion]

\* ------------------------------------------------ the edge tables (3.3, 4.5)

\* The row of the edge the last call put.
PutRow == <<Bind(exec.args[1]), Bind(exec.args[2])>>

\* One of the four calls returned.
PutDone == exec.pc = "done" /\ exec.op \in EdgeTables

Stored(rows, row) == \E i \in DOMAIN rows : rows[i] = row

\* C28: the four calls are idempotent inserts: a call with a key that is
\* already stored returns OK and leaves the edge table as it was, and each
\* edge table holds each key at most once.
C28_IdempotentEdgeInserts ==
    /\ (PutDone /\ Stored(exec.before[exec.op], PutRow)) =>
           (exec.status = OK /\ tables = exec.before)
    /\ \A t \in EdgeTables : \A i, j \in DOMAIN tables[t] :
           tables[t][i] = tables[t][j] => i = j

\* PutParentContext was repeated with a stored key, among other edges, and
\* returned OK.
C28_Witness ==
    /\ PutDone
    /\ exec.op = "ParentContext"
    /\ Stored(exec.before[exec.op], PutRow)
    /\ exec.status = OK
    /\ Len(tables[exec.op]) = 2
    /\ exec.sent # <<>>

\* The edges of rows have a cycle: some id is its own parent, or an
\* ancestor of one of its parents.
Cyclic(rows) ==
    \E i \in DOMAIN rows :
        \E u, v \in 1..NumIds :
            /\ rows[i] = <<Bind(u), Bind(v)>>
            /\ u \in Ancestors(rows, {v})

\* C29: the ParentType and ParentContext graphs have no cycle and no
\* self-edge; a call that would create one fails and leaves the table
\* unchanged.
C29_HierarchiesAcyclic ==
    /\ \A t \in Hierarchies : ~Cyclic(tables[t])
    /\ (PutDone /\ exec.op \in Hierarchies
            /\ Cyclic(Append(exec.before[exec.op], PutRow))) =>
           (exec.status # OK /\ tables = exec.before)

\* PutParentContext was refused an edge that would close a cycle through
\* two stored edges.
C29_Witness ==
    /\ PutDone
    /\ exec.op = "ParentContext"
    /\ exec.status = "InvalidArgument"
    /\ tables = exec.before
    /\ Len(tables[exec.op]) = 2
    /\ exec.args[1] # exec.args[2]
    /\ ~Stored(tables[exec.op], <<Bind(exec.args[2]), Bind(exec.args[1])>>)

\* ------------------------------------------------ template queries (4.3)

\* ExecuteQuery was called with a number of parameters that differs from the
\* template's parameter_num.
Mismatched == exec.op = "ExecuteQuery" /\ Len(exec.args) # exec.parameter_num

\* C30 as stated: a call whose number of parameters differs from
\* parameter_num returns InvalidArgument and sends no SQL.
C30_MismatchReturnsInvalidArgument ==
    Mismatched =>
        /\ exec.pc = "done"
        /\ exec.status = "InvalidArgument"
        /\ exec.sent = <<>>

\* C30: a call whose number of parameters differs from parameter_num sends
\* no SQL and changes no table: with more than MaxTemplateParameters
\* parameters it returns InvalidArgument, and otherwise the process is
\* terminated by LOG(FATAL) and no status is returned.
C30_MismatchSendsNoSql ==
    Mismatched =>
        /\ exec.sent = <<>>
        /\ tables = exec.before
        /\ IF Len(exec.args) > MaxTemplateParameters
           THEN exec.pc = "done" /\ exec.status = "InvalidArgument"
           ELSE exec.pc = "aborted" /\ exec.fatal

\* A call with two parameters on a template that declares three terminated
\* the process.
C30_Witness ==
    /\ Mismatched
    /\ Len(exec.args) = 2
    /\ exec.parameter_num = 3
    /\ exec.pc = "aborted"
    /\ exec.before # NoTables

\* ------------------------------------------------ upgrade: nothing to do

\* The database of caller p's call is empty: its schema probe reports
\* NotFound.
StartsEmpty(p) == SchemaVersionOf(snapshot[p]).status = "NotFound"

\* C31: an upgrade of a database at the library version, and of an empty
\* database, sends no upgrade query and no schema-version update, leaves the
\* database as it was and returns OK, with migration enabled or not.
C31_UpToDateOrEmptyUpgradeIsNoOp ==
    \A p \in Procs :
        (call[p].op = "Upgrade" /\ (StartsAt(p, LibVersion) \/ StartsEmpty(p)))
        => /\ log[p] = <<>>
           /\ db = snapshot[p]
           /\ Returned(p) => call[p].status = OK

\* An upgrade with migration enabled returned OK on an empty database, after
\* one with migration disabled did.
C31_Witness ==
    \E p \in Procs :
        /\ pc[p] = "done" /\ call[p].op = "Upgrade" /\ StartsEmpty(p)
        /\ call[p].enable_migration /\ call[p].status = OK
        /\ call[p].get_schema_version_status = "NotFound"
        /\ prev[p].op = "Upgrade" /\ ~prev[p].call.enable_migration
        /\ prev[p].call.status = OK

\* ------------------------------------------------ racing initializers (5)

\* Caller p's GetSchemaVersion has just answered.
Probed(p) == pc[p] = "probed"

\* A statement of a migration.
MigrationStmt(q) == q.kind \in {"upgrade", "update_schema_version"}

CreationStmt(k) ==
    IF k <= Len(CreateOrder) THEN CreateTableStmt(k)
    ELSE CreateIndexStmt(k - Len(CreateOrder))

Creation(e) == e.stmt.kind \in {"create_table", "create_index"}

\* The creations of log l that failed.
FailedCreations(l) == {k \in DOMAIN l : Creation(l[k]) /\ ~l[k].ok}

HasInsert(l) == \E k \in DOMAIN l : l[k].stmt.kind = "insert_schema_version"

\* C33 as stated: when a table or index creation failed, the call returns
\* an error and sends no version insert.
C33_AnyFailedCreationStops ==
    \A p \in Procs :
        FailedCreations(log[p]) # {} =>
            /\ ~HasInsert(log[p])
            /\ Returned(p) => call[p].status # OK

\* C33: the version insert is the statement after the 15 table creations
\* and the index creations, of which every table creation succeeded and
\* every index creation succeeded or failed with "Duplicate key name"; once
\* the version is inserted all 15 tables and all indices exist; a failed
\* table creation, and an index creation that failed with another error, is
\* the last statement of the call, which returns its error and inserts no
\* version.
C33_VersionInsertedLast ==
    \A p \in Procs :
        /\ \A k \in DOMAIN log[p] :
              log[p][k].stmt.kind = "insert_schema_version" =>
                 /\ k = Len(CreateOrder) + NumIndices + 1
                 /\ \A j \in 1..(k - 1) : log[p][j].stmt = CreationStmt(j)
                 /\ \A j \in FailedCreations(log[p]) : j > Len(CreateOrder)
                 /\ Cardinality(FailedCreations(log[p])) = call[p].skipped
                 /\ log[p][k].ok =>
                       /\ TableNames \subseteq db.tables
                       /\ AllIndices \subseteq db.indices
        /\ Cardinality(FailedCreations(log[p])) > call[p].skipped =>
              /\ Len(log[p]) \in FailedCreations(log[p])
              /\ Cardinality(FailedCreations(log[p])) = call[p].skipped + 1
              /\ pc[p] \in {"ret", "done"}
              /\ call[p].status \in DriverErrors
              /\ pc[p] = "done" => db = snapshot[p]

\* InitMetadataSource went on from an index creation that failed and
\* inserted the version.
C33_Witness ==
    \E p \in Procs :
        /\ call[p].op = "Init"
        /\ pc[p] = "done" /\ call[p].status = OK
        /\ call[p].skipped = 1
        /\ HasInsert(log[p]) /\ log[p][Len(log[p])].ok
        /\ db # snapshot[p]

\* The driver has just answered caller p's creation of a secondary index
\* with a failure.
IndexJustFailed(p) ==
    /\ Len(log[p]) > 0
    /\ log[p][Len(log[p])].stmt.kind = "create_index"
    /\ ~log[p][Len(log[p])].ok

\* C34: an index creation that failed with a message containing "Duplicate
\* key name" is skipped: the call goes on with the next index, or with the
\* version insert after the last index.  An index creation that failed with
\* another error ends the call, which returns that error.
C34_DuplicateKeyNameSkipped ==
    \A p \in Procs :
        IndexJustFailed(p) =>
            LET j == log[p][Len(log[p])].stmt.i
            IN  IF call[p].message = DuplicateKeyName
                THEN /\ pc[p] = IF j < NumIndices THEN "init_index"
                                ELSE "init_insert"
                     /\ call[p].q = j + 1
                     /\ call[p].status = OK
                ELSE /\ pc[p] \in {"ret", "done"}
                     /\ call[p].message \in DriverErrors
                     /\ call[p].status = call[p].message

\* The creation of the first index failed with "Duplicate key name", and
\* the call is about to create the next index.
C34_Witness ==
    \E p \in Procs :
        /\ IndexJustFailed(p)
        /\ call[p].message = DuplicateKeyName
        /\ log[p][Len(log[p])].stmt.i = 1
        /\ pc[p] = "init_index"
        /\ call[p].q = 2

\* ------------------------------------------------ downgrade: frame (4.3)

\* Caller p's call is a downgrade to a target in 0..LibVersion.
DowngradeInRange(p) ==
    call[p].op = "Downgrade" /\ call[p].to_schema_version \in 0..LibVersion

\* C35: a downgrade to an in-range target t of a database at a version of at
\* most t sends no statement, leaves the database as it was and returns OK;
\* and when a downgrade to t returns OK the database's version is at most t.
C35_DowngradeNeverRaisesVersion ==
    \A p \in Procs :
        DowngradeInRange(p) =>
            /\ (\E v \in 0..call[p].to_schema_version : StartsAt(p, v)) =>
                  /\ log[p] = <<>>
                  /\ db = snapshot[p]
                  /\ Returned(p) => call[p].status = OK
            /\ (Returned(p) /\ call[p].status = OK) =>
                  /\ SchemaVersionOf(db).status = OK
                  /\ SchemaVersionOf(db).version <= call[p].to_schema_version

\* A downgrade to version 2 of a database at version 1 returned OK and left
\* it at version 1.
C35_Witness ==
    \E p \in Procs :
        /\ pc[p] = "done" /\ call[p].op = "Downgrade"
        /\ call[p].to_schema_version = 2
        /\ StartsAt(p, 1)
        /\ call[p].status = OK
        /\ db = DBAt(1)

\* C36: a downgrade to an in-range target of an empty database returns
\* InvalidArgument, and of a database whose schema version cannot be read
\* the error of GetSchemaVersion, Aborted or DataLoss; neither sends a
\* statement.
C36_DowngradeOfEmptyIsInvalidArgument ==
    \A p \in Procs :
        (DowngradeInRange(p) /\ SchemaVersionOf(snapshot[p]).status # OK) =>
            /\ log[p] = <<>>
            /\ db = snapshot[p]
            /\ Returned(p) =>
                  call[p].status =
                     IF StartsEmpty(p) THEN "InvalidArgument"
                     ELSE SchemaVersionOf(snapshot[p]).status

\* A downgrade of an empty database, whose probe reported NotFound,
\* returned InvalidArgument.
C36_Witness ==
    \E p \in Procs :
        /\ pc[p] = "done" /\ DowngradeInRange(p) /\ StartsEmpty(p)
        /\ call[p].get_schema_version_status = "NotFound"
        /\ call[p].status = "InvalidArgument"

\* ------------------------------------------------ full scans (4.4)

\* The rows a scan is to visit.
ScanRows == Eligible(nodes, request.candidate_ids)

CreateTimeFollowsId ==
    \A i, j \in 1..Len(nodes) :
        i < j => nodes[i].create_time <= nodes[j].create_time

EventPathRow(event_id, step) ==
    IF has_index(step)
    THEN <<Bind(event_id), "step_index", "1", Bind(step.index)>>
    ELSE <<Bind(event_id), "step_key", "0", "'" \o step.key \o "'">>

\* C38: InsertEventPath of a step with neither an index nor a key returns OK,
\* executes no query and stores no row; of a step with an index or a key it
\* executes one query, returns OK and stores one row, tagged step_index for
\* an index and step_key for a key.
C38_UnsetStepIsSilentSuccess ==
    (exec.op = "InsertEventPath" /\ exec.pc = "done") =>
        LET step == exec.args[2]
        IN  /\ exec.status = OK
            /\ \A t \in EdgeTables : tables[t] = exec.before[t]
            /\ IF step.value_case = "VALUE_NOT_SET"
               THEN /\ exec.sent = <<>>
                    /\ tables = exec.before
               ELSE /\ Len(exec.sent) = 1
                    /\ tables["EventPath"] =
                           Append(exec.before["EventPath"],
                                  EventPathRow(exec.args[1], step))

\* A step with no value was given after an index step and a key step of the
\* same event were stored: the call returned and the two rows are the table.
C38_Witness ==
    /\ exec.op = "InsertEventPath"
    /\ exec.pc = "done"
    /\ exec.args[2].value_case = "VALUE_NOT_SET"
    /\ Len(tables["EventPath"]) = 2
    /\ tables["EventPath"][1][2] = "step_index"
    /\ tables["EventPath"][2][2] = "step_key"

\* The bytes GetTransferredBytes gives for the nodes with the ids of ids.
RECURSIVE BytesOfIds(_)
BytesOfIds(ids) ==
    IF ids = <<>> THEN 0
    ELSE LET node == CHOOSE m \in {bench.existing_nodes[i] :
                                      i \in DOMAIN bench.existing_nodes} :
                         m.id = Head(ids)
         IN  GetTransferredBytes(bench.specification, node) +
             BytesOfIds(Tail(ids))

\* C39: each work item of the read-nodes-by-id workload holds as many ids as
\* the number drawn from num_of_parameters for it, its bytes are the sum of
\* the transferred bytes of the nodes whose ids are in its request, and when
\* SetUpImpl has returned OK there are exactly num_operations work items.
C39_WorkItemHoldsDrawnIds ==
    /\ \A k \in DOMAIN bench.work_items :
          LET w == bench.work_items[k]
          IN  /\ Len(w.request.ids) = w.num
              /\ w.bytes = BytesOfIds(w.request.ids)
    /\ (bench.pc = "done" /\ bench.status = OK) =>
          Len(bench.work_items) = bench.num_operations
====
